---------------------------- MODULE Spec2Model ----------------------------
(***************************************************************************)
(* A model of "cracked" (i_dropped_my_phone_the_screen_cracked): the node  *)
(* registry and selector lookup, macro recording, the connection resolver, *)
(* node reset, and the step sequencer.                                     *)
(*                                                                         *)
(* Sources: src/dist/cracked.js (registry, macros, connections, reset) and *)
(* src/src/sequence.js (sequencer, find).                                  *)
(*                                                                         *)
(* Conventions.                                                            *)
(*  - A node's uuid (generateUUID, a random string) is a positive integer, *)
(*    handed out in creation order; 0 stands for null / undefined.         *)
(*  - Strings are JavaScript strings; the string functions the code uses   *)
(*    (split, indexOf, join, match(/^\./)) are the operators below.         *)
(*  - Host time (_context.currentTime, seconds) is an integer count of     *)
(*    1/70 s, so that interval/1000 and interval/1.75 are both exact for   *)
(*    intervals that are multiples of 100 ms.                              *)
(***************************************************************************)
EXTENDS Integers, Sequences, FiniteSets, TLC

VARIABLES
    \* ---- src/dist/cracked.js:5-12, module state
    nodeStore,          \* _nodeStore: uuid -> AudioNode wrapper (a sequence, index = uuid)
    nodeLookup,         \* _nodeLookup: key string -> array of uuids
    previousNode,       \* _previousNode: uuid of the node, 0 = null
    selectedNodes,      \* _selectedNodes
    currentSelector,    \* _currentSelector
    currentMacro,       \* _currentMacro: stack of macro uuids
    \* ---- the host audio runtime
    natives,            \* primitive handle -> its fields (buffer, started)
    edges,              \* native connections made: <<from handle, to endpoint>>
    \* ---- src/src/sequence.js:11-20, loop state
    isLoopRunning,
    ignoreGrid,
    loopStepSize,
    loopInterval,
    loopID,
    loopCB,
    loopData,
    loopIndex,
    loopListeners,
    loopTimeToNextStep,
    \* ---- the host timers and clock
    currentTime,        \* _context.currentTime
    timers,             \* armed setInterval timers: id -> [period, armedAt]
    timerSeq,           \* ids handed out by setInterval so far
    \* ---- observation of the last operation
    last,               \* the last operation, its inputs and what it did
    calls,              \* callbacks invoked by the last operation, in order
    startedAt,          \* host time read by the last loop("start")
    stepsFired          \* steps fired since the last loop("start")

graphVars == <<nodeStore, nodeLookup, previousNode, selectedNodes, currentSelector,
               currentMacro, natives, edges>>
loopVars  == <<isLoopRunning, ignoreGrid, loopStepSize, loopInterval, loopID, loopCB,
               loopData, loopIndex, loopListeners, loopTimeToNextStep>>
hostVars  == <<currentTime, timers, timerSeq>>
obsVars   == <<startedAt, stepsFired>>
vars      == <<graphVars, loopVars, hostVars, last, calls, obsVars>>

-----------------------------------------------------------------------------
(* Bounds of the model *)

MaxNodes  == 3      \* nodes created in one run
MaxTime   == 15     \* host time a free-running clock is followed to (1/70 s units)
MaxSteadyTime == 160 \* host time a steady clock is followed to (1/70 s units)
MaxTimers == 1      \* setInterval calls in one run
MaxListeners == 1   \* step listeners bound at once

-----------------------------------------------------------------------------
(* JavaScript strings and arrays *)

\* s.charAt(i-1)
CharAt(s, i) == SubSeq(s, i, i)

\* s.indexOf(sub) !== -1
Contains(s, sub) ==
    \E i \in 1..(Len(s) + 1) :
        /\ i + Len(sub) - 1 <= Len(s)
        /\ SubSeq(s, i, i + Len(sub) - 1) = sub

\* the position (from 1) of the first sep at or after i, Len(s)+1 when there is none
RECURSIVE NextSep(_, _, _)
NextSep(s, sep, i) ==
    IF i > Len(s) THEN Len(s) + 1
    ELSE IF CharAt(s, i) = sep THEN i
    ELSE NextSep(s, sep, i + 1)

\* s.split(sep) for a one-character sep: "" gives [""], "a," gives ["a", ""]
RECURSIVE SplitFrom(_, _, _)
SplitFrom(s, sep, i) ==
    LET j == NextSep(s, sep, i)
    IN  IF j > Len(s) THEN << SubSeq(s, i, Len(s)) >>
        ELSE << SubSeq(s, i, j - 1) >> \o SplitFrom(s, sep, j + 1)

Split(s, sep) == SplitFrom(s, sep, 1)

\* arr.join(sep)
RECURSIVE Join(_, _)
Join(arr, sep) ==
    IF Len(arr) = 0 THEN ""
    ELSE IF Len(arr) = 1 THEN arr[1]
    ELSE arr[1] \o sep \o Join(Tail(arr), sep)

\* arr.indexOf(x) !== -1
InArr(arr, x) == \E i \in 1..Len(arr) : arr[i] = x

\* arr.splice(i-1, 1)
RemoveAt(arr, i) == SubSeq(arr, 1, i - 1) \o SubSeq(arr, i + 1, Len(arr))

Last(arr) == arr[Len(arr)]

-----------------------------------------------------------------------------
(* The host audio runtime: what a primitive made by a creation method offers *)

\* the AudioParams a primitive exposes (objects, hence truthy)
AudioParams(method) ==
    CASE method = "createOscillator"   -> {"frequency", "detune"}
      [] method = "createGain"         -> {"gain"}
      [] method = "createBufferSource" -> {"playbackRate"}
      [] OTHER                         -> {}

\* one-shot primitives: they have start and stop
HasStart(method) == method \in {"createOscillator", "createBufferSource"}

\* creationParams.mapping of the factory methods (cracked.osc, cracked.gain,
\* cracked.buffer): parameter name -> path; a name without an entry maps to itself
ParamMappingOf(method) ==
    CASE method = "createOscillator" ->
            [name \in {"frequency", "detune"} |-> name \o ".value"]
      [] method = "createGain" ->
            [name \in {"gain"} |-> "gain.value"]
      [] method = "createBufferSource" ->
            [name \in {"speed", "start", "end"} |->
                IF name = "speed" THEN "playbackRate.value"
                ELSE IF name = "start" THEN "loopStart" ELSE "loopEnd"]
      [] OTHER -> [name \in {} |-> ""]

\* path.replace(".value", ""): the first occurrence is removed
RECURSIVE StripValueFrom(_, _)
StripValueFrom(path, i) ==
    IF i + 5 > Len(path) THEN path
    ELSE IF SubSeq(path, i, i + 5) = ".value"
         THEN SubSeq(path, 1, i - 1) \o SubSeq(path, i + 6, Len(path))
         ELSE StripValueFrom(path, i + 1)

StripValue(path) == StripValueFrom(path, 1)

resolveParamMapping(name, map) ==
    IF name \in DOMAIN map THEN map[name] ELSE name

-----------------------------------------------------------------------------
(* Endpoints: what a connection resolves to.  "prim" is a primitive handle   *)
(* <<u, g>> (the g-th primitive built for node u), "param" an AudioParam of  *)
(* a primitive, "arr" the member array of macro u, "none" undefined / null.  *)

NoEP          == [k |-> "none",  u |-> 0, g |-> 0, p |-> ""]
Prim(u, g)    == [k |-> "prim",  u |-> u, g |-> g, p |-> ""]
Param(u, g, p) == [k |-> "param", u |-> u, g |-> g, p |-> p]
Arr(u)        == [k |-> "arr",   u |-> u, g |-> 0, p |-> ""]

-----------------------------------------------------------------------------
(* AudioNode wrapper (src/dist/cracked.js:1069-1498) as a record *)

\* new AudioNode(type, creationParams, userSettings); settings is the merge of
\* the user settings: id, class, modulates ("" = not given)
NewAudioNode(uuid, type, method, settings) ==
    [ uuid   |-> uuid,
      type   |-> type,
      method |-> method,
      id     |-> settings.id,
      class  |-> settings.class,
      modulates |-> settings.modulates,
      macroContainerUUID |-> 0,
      macroNameSpace |-> "",
      prevNode |-> 0,
      nextNode |-> << >>,
      isPlaying |-> FALSE,
      stored  |-> TRUE,     \* _nodeStore has a property for this uuid
      gen     |-> 0,        \* nativeNode of a leaf is the primitive <<uuid, gen>>
      members |-> << >> ]   \* nativeNode of a macro: its member array

isMacro(n) == n.method = ""

\* node.getNativeNode() as an endpoint
getNativeNode(n) == IF isMacro(n) THEN Arr(n.uuid) ELSE Prim(n.uuid, n.gen)

getParamMapping(n) == ParamMappingOf(n.method)

\* areSiblings with the comparison dropped: no two nodes count as siblings
areSiblingsNever(n, m) == FALSE

\* AudioNode.areSiblings: undefined === undefined for two nodes without a container
areSiblings(n, m) == m.macroContainerUUID = n.macroContainerUUID

isModulator(ns, n) ==
    IF n.macroContainerUUID # 0 /\ ns[n.macroContainerUUID].modulates # ""
    THEN TRUE
    ELSE n.modulates # ""

isModulatorType(ns, n) ==
    IF n.macroContainerUUID # 0 /\ ns[n.macroContainerUUID].modulates # ""
    THEN ns[n.macroContainerUUID].modulates
    ELSE n.modulates

-----------------------------------------------------------------------------
(* Macro recording *)

recordingMacro(cm) == Len(cm) # 0

getCurrentMacro(cm) == IF recordingMacro(cm) THEN cm[Len(cm)] ELSE 0

RECURSIVE NamespaceFrom(_, _, _)
NamespaceFrom(ns, cm, i) ==
    IF i > Len(cm) THEN ""
    ELSE ns[cm[i]].type \o " " \o NamespaceFrom(ns, cm, i + 1)

\* getCurrentMacroNamespace that never visits the stack
getCurrentMacroNamespaceEmpty(ns, cm) == ""

getCurrentMacroNamespace(ns, cm) == NamespaceFrom(ns, cm, 1)

-----------------------------------------------------------------------------
(* Registry and selector lookup *)

getSelectorType(str) ==
    IF Len(str) > 0 /\ CharAt(str, 1) = "." THEN "class"
    ELSE IF Len(str) > 0 /\ CharAt(str, 1) = "#" THEN "id"
    ELSE "type"

setter(map, key, value) ==
    IF key = "" THEN map
    ELSE IF key \in DOMAIN map
         THEN [map EXCEPT ![key] = Append(@, value)]
         ELSE (key :> << value >>) @@ map

\* classArr.forEach(function () { setter(.., prefix + "." + params[x], ..) })
RECURSIVE SetClassTimes(_, _, _, _)
SetClassTimes(map, key, value, times) ==
    IF times = 0 THEN map
    ELSE SetClassTimes(setter(map, key, value), key, value, times - 1)

setNodeLookup(lk, n, prefix) ==
    LET a == IF n.id # "" THEN setter(lk, prefix \o "#" \o n.id, n.uuid) ELSE lk
        b == IF n.class # ""
             THEN SetClassTimes(a, prefix \o "." \o n.class, n.uuid,
                                Len(Split(n.class, ",")))
             ELSE a
        c == setter(b, "*", n.uuid)
    IN  setter(c, prefix \o n.type, n.uuid)

RECURSIVE UniqueFrom(_, _)
UniqueFrom(array, acc) ==
    IF Len(array) = 0 THEN acc
    ELSE UniqueFrom(Tail(array),
                    IF InArr(acc, Head(array)) THEN acc ELSE Append(acc, Head(array)))

\* arrayUnique that returns the concatenation as it is
arrayUniqueKeepsAll(array) == array

arrayUnique(array) == UniqueFrom(array, << >>)

\* what one clause contributes (getNodesWithSelector, the body of the forEach)
ClauseNodes(lk, currSelector) ==
    IF currSelector # "" /\ currSelector \in DOMAIN lk
    THEN LET tmp == lk[currSelector]
         IN  IF getSelectorType(currSelector) = "id" /\ Len(tmp) > 1
             THEN << tmp[1] >> ELSE tmp
    ELSE << >>

RECURSIVE NodesFrom(_, _, _)
NodesFrom(lk, selector_array, nodes) ==
    IF Len(selector_array) = 0 THEN nodes
    ELSE NodesFrom(lk, Tail(selector_array),
                   IF Head(selector_array) # "" /\ Head(selector_array) \in DOMAIN lk
                   THEN arrayUnique(nodes \o ClauseNodes(lk, Head(selector_array)))
                   ELSE nodes)

getNodesWithSelector(lk, selector) == NodesFrom(lk, Split(selector, ","), << >>)

-----------------------------------------------------------------------------
(* Connection resolver (src/dist/cracked.js:1401-1497) *)

\* a primitive handle exposes the property (an AudioParam); an array does not
Exposes(ns, member, property) ==
    member.k = "prim" /\ property \in AudioParams(ns[member.u].method)

getNodeToConnect(n, whichNode) ==
    IF isMacro(n)
    THEN IF Len(n.members) = 0 THEN NoEP
         ELSE IF whichNode = "from" THEN Last(n.members) ELSE n.members[1]
    ELSE Prim(n.uuid, n.gen)

\* the property name a member resolves the modulated parameter to
ResolvedProperty(ns, member, property) ==
    StripValue(resolveParamMapping(property, getParamMapping(ns[member.u])))

\* the for loop over a macro's members: the first member exposing the parameter
RECURSIVE ModulatorTargetFrom(_, _, _, _)
ModulatorTargetFrom(ns, n, property, i) ==
    IF i > Len(n.members) THEN Arr(n.uuid)
    ELSE LET m == n.members[i]
             resolvedProperty == ResolvedProperty(ns, m, property)
         IN  IF Exposes(ns, m, resolvedProperty)
             THEN Param(m.u, m.g, resolvedProperty)
             ELSE ModulatorTargetFrom(ns, n, property, i + 1)

getNodeToConnectToModulator(ns, n, property) ==
    IF isMacro(n)
    THEN ModulatorTargetFrom(ns, n, property, 1)
    ELSE LET resolvedProperty == ResolvedProperty(ns, Prim(n.uuid, n.gen), property)
         IN  IF Exposes(ns, Prim(n.uuid, n.gen), resolvedProperty)
             THEN Param(n.uuid, n.gen, resolvedProperty)
             ELSE NoEP

getNodesToConnect(ns, fromNode, toNode) ==
    IF isModulator(ns, fromNode) /\ ~areSiblings(fromNode, toNode)
    THEN [from |-> getNodeToConnect(fromNode, "from"),
          to   |-> getNodeToConnectToModulator(ns, toNode, isModulatorType(ns, fromNode))]
    ELSE [from |-> getNodeToConnect(fromNode, "from"),
          to   |-> getNodeToConnect(toNode, "to")]

\* nodes.from && __.isFun(nodes.from.connect) && nodes.to
Connectable(nodes) == nodes.from.k = "prim" /\ nodes.to.k # "none"

\* the native from.connect(to): an edge to an AudioNode or AudioParam, a
\* TypeError for anything else (an array), an exception when the host fails
NativeConnect(G, nodes) ==
    IF nodes.to.k \in {"prim", "param"} /\ ~G.hostFails
    THEN [G EXCEPT !.ed = @ \cup {<< <<nodes.from.u, nodes.from.g>>, nodes.to >>}]
    ELSE [G EXCEPT !.threw = TRUE]

\* the body shared by AudioNode.connect and AudioNode.connectPrevious
ConnectResolved(G, fromU, toU) ==
    LET nodes == getNodesToConnect(G.ns, G.ns[fromU], G.ns[toU])
    IN  IF Connectable(nodes) THEN NativeConnect(G, nodes) ELSE G

\* this.connect(nodeToConnect), this = node fromU
nodeConnect(G, fromU, toU) ==
    IF toU # 0 /\ fromU # toU THEN ConnectResolved(G, fromU, toU) ELSE G

\* this.connectPrevious(), this = node u
connectPrevious(G, u) ==
    LET pNode == G.ns[u].prevNode
    IN  IF pNode # 0 /\ u # pNode THEN ConnectResolved(G, pNode, u) ELSE G

\* this.pushNextNode(node): the link is recorded on the wrapper of the primitive
\* the connect starts from; nodes.from.uuid of an undefined from is a TypeError
RECURSIVE pushNextNode(_, _, _)
pushNextNode(G, thisU, nodeU) ==
    IF nodeU = 0 THEN G
    ELSE LET nodes == getNodesToConnect(G.ns, G.ns[thisU], G.ns[nodeU])
         IN  IF nodes.from.k = "none" THEN [G EXCEPT !.threw = TRUE]
             ELSE IF nodes.from.u # thisU
                  THEN pushNextNode(G, nodes.from.u, nodeU)
                  ELSE [G EXCEPT !.ns[thisU].nextNode = Append(@, nodeU)]

-----------------------------------------------------------------------------
(* The graph state as one value, so that an operation is a function of it.   *)
(* threw: an exception left the operation (what was done before it stays).   *)
(* hostFails: the host runtime rejects the native connects of the operation. *)

Graph == [ns  |-> nodeStore,    lk  |-> nodeLookup,  prev |-> previousNode,
          sel |-> selectedNodes, cur |-> currentSelector, cm |-> currentMacro,
          nat |-> natives,      ed  |-> edges,       threw |-> FALSE,
          hostFails |-> FALSE]

SetGraph(G) ==
    /\ nodeStore' = G.ns
    /\ nodeLookup' = G.lk
    /\ previousNode' = G.prev
    /\ selectedNodes' = G.sel
    /\ currentSelector' = G.cur
    /\ currentMacro' = G.cm
    /\ natives' = G.nat
    /\ edges' = G.ed

\* a fresh primitive from audioNodeFactory
NewNative == [buffer |-> 0, started |-> 0]

\* the statements after a call run on what the call left, unless an exception
\* left the call: then they do not run
Then(G, F(_)) == IF G.threw THEN G ELSE F(G)

-----------------------------------------------------------------------------
(* Model: saveNode, updateMacro (src/dist/cracked.js:391-396, 1676-1680) *)

\* updateMacro that records the node in the outermost recording macro
updateMacroOutermost(G, n) ==
    IF recordingMacro(G.cm)
    THEN LET outer == G.cm[1]
         IN  [node |-> [n EXCEPT !.macroContainerUUID = outer],
              ns   |-> [G.ns EXCEPT ![outer].members = Append(@, getNativeNode(n))]]
    ELSE [node |-> n, ns |-> G.ns]

updateMacro(G, n) ==
    IF recordingMacro(G.cm)
    THEN LET top == getCurrentMacro(G.cm)
         IN  [node |-> [n EXCEPT !.macroContainerUUID = top],
              ns   |-> [G.ns EXCEPT ![top].members = Append(@, getNativeNode(n))]]
    ELSE [node |-> n, ns |-> G.ns]

saveNode(G, n) ==
    LET um == updateMacro(G, n)
    IN  [G EXCEPT !.ns = Append(um.ns, um.node),
                  !.lk = setNodeLookup(G.lk, um.node,
                                       getCurrentMacroNamespace(G.ns, G.cm))]

-----------------------------------------------------------------------------
(* Node creation (src/dist/cracked.js:1006-1032) *)

\* the for loop of createNode over nodesToConnect, from position i
RECURSIVE ChainFrom(_, _, _, _)
ChainFrom(G, nodesToConnect, i, u) ==
    IF i > Len(nodesToConnect) THEN G
    ELSE IF nodesToConnect[i] = 0 THEN ChainFrom(G, nodesToConnect, i + 1, u)
    ELSE Then(Then(nodeConnect(G, nodesToConnect[i], u),
                   LAMBDA c : pushNextNode(c, nodesToConnect[i], u)),
              LAMBDA q : ChainFrom([q EXCEPT !.ns[u].prevNode = nodesToConnect[i]],
                                   nodesToConnect, i + 1, u))

resetSelection(G) == [G EXCEPT !.sel = << >>, !.cur = ""]

setPreviousNode(G, node) == IF node # 0 THEN [G EXCEPT !.prev = node] ELSE G

\* createNode that chains from the previous node whatever is selected
createNodeFromPreviousOnly(G, type, method, settings) ==
    LET u  == Len(G.ns) + 1
        n  == NewAudioNode(u, type, method, settings)
        G1 == saveNode(IF isMacro(n) THEN G
                       ELSE [G EXCEPT !.nat = (<<u, 0>> :> NewNative) @@ @], n)
    IN  IF isMacro(n) THEN G1
        ELSE Then(ChainFrom(G1, << G.prev >>, 1, u),
                  LAMBDA G2 : setPreviousNode(resetSelection(G2), u))

\* createNode whose catch block does not throw the exception again
createNodeSwallowsException(G, type, method, settings) ==
    LET u  == Len(G.ns) + 1
        n  == NewAudioNode(u, type, method, settings)
        G1 == saveNode(IF isMacro(n) THEN G
                       ELSE [G EXCEPT !.nat = (<<u, 0>> :> NewNative) @@ @], n)
    IN  IF isMacro(n) THEN G1
        ELSE LET nodesToConnect == IF Len(G.sel) # 0 THEN G.sel ELSE << G.prev >>
             IN  setPreviousNode(
                    resetSelection([ChainFrom(G1, nodesToConnect, 1, u)
                                       EXCEPT !.threw = FALSE]), u)

createNode(G, type, method, settings) ==
    LET u  == Len(G.ns) + 1
        n  == NewAudioNode(u, type, method, settings)
        G1 == saveNode(IF isMacro(n) THEN G
                       ELSE [G EXCEPT !.nat = (<<u, 0>> :> NewNative) @@ @], n)
    IN  IF isMacro(n) THEN G1
        ELSE LET nodesToConnect == IF Len(G.sel) # 0 THEN G.sel ELSE << G.prev >>
             IN  Then(ChainFrom(G1, nodesToConnect, 1, u),
                      LAMBDA G2 : setPreviousNode(resetSelection(G2), u))

\* cracked.buffer: createNode, then loadBuffer with a data function (buf # 0)
bufferNode(G, settings, buf) ==
    LET u == Len(G.ns) + 1
    IN  Then(createNode(G, "buffer", "createBufferSource", settings),
             LAMBDA G1 : IF buf = 0 THEN G1
                         ELSE [G1 EXCEPT !.nat[<<u, 0>>].buffer = buf])

-----------------------------------------------------------------------------
(* Macros (src/dist/cracked.js:349-371) *)

begin(G, name, settings) ==
    IF name # ""
    THEN Then(createNode(G, name, "", settings),
              LAMBDA G1 : [G1 EXCEPT !.cm = Append(@, Len(G1.ns))])
    ELSE G

\* AudioNode.setMacroNameSpace: only a non-empty name is stored
setMacroNameSpace(n, name) == IF name # "" THEN [n EXCEPT !.macroNameSpace = name] ELSE n

\* end(name) that does not compare the type of the top macro with name
endAnyName(G, name) ==
    IF recordingMacro(G.cm)
    THEN LET top == getCurrentMacro(G.cm)
         IN  [G EXCEPT !.ns[top] = setMacroNameSpace(@, getCurrentMacroNamespace(G.ns, G.cm)),
                       !.cm = SubSeq(@, 1, Len(@) - 1)]
    ELSE G

\* end(name) that pops the stack before it reads the namespace: the closed
\* macro is named after its ancestors only
endNamesAfterPop(G, name) ==
    IF recordingMacro(G.cm) /\ G.ns[getCurrentMacro(G.cm)].type = name
    THEN LET top == getCurrentMacro(G.cm)
         IN  [G EXCEPT !.ns[top] = setMacroNameSpace(@,
                           getCurrentMacroNamespace(G.ns, SubSeq(G.cm, 1, Len(G.cm) - 1))),
                       !.cm = SubSeq(@, 1, Len(@) - 1)]
    ELSE G

end(G, name) ==
    IF recordingMacro(G.cm) /\ G.ns[getCurrentMacro(G.cm)].type = name
    THEN LET top == getCurrentMacro(G.cm)
         IN  [G EXCEPT !.ns[top] = setMacroNameSpace(@, getCurrentMacroNamespace(G.ns, G.cm)),
                       !.cm = SubSeq(@, 1, Len(@) - 1)]
    ELSE G

-----------------------------------------------------------------------------
(* Finding (src/src/sequence.js:314-391, src/dist/cracked.js:91-147, 323-337) *)

reset(G) == [G EXCEPT !.prev = 0, !.sel = << >>, !.cur = ""]

\* selectorArr[i].indexOf(prefix) !== -1 ? selectorArr[i] : prefix + selectorArr[i]
RECURSIVE PrefixAll(_, _)
PrefixAll(selectorArr, prefix) ==
    IF Len(selectorArr) = 0 THEN << >>
    ELSE << IF Contains(Head(selectorArr), prefix) THEN Head(selectorArr)
            ELSE prefix \o Head(selectorArr) >>
         \o PrefixAll(Tail(selectorArr), prefix)

\* _selectedNodes.forEach(function (el, i, arr) { if (..) arr.splice(i, 1) }):
\* after a splice the element that moved into position i is not visited
RECURSIVE StripForeign(_, _, _, _)
StripForeign(ns, arr, i, macroUUID) ==
    IF i > Len(arr) THEN arr
    ELSE IF ns[arr[i]].macroContainerUUID # macroUUID
         THEN StripForeign(ns, RemoveAt(arr, i), i + 1, macroUUID)
         ELSE StripForeign(ns, arr, i + 1, macroUUID)

findInMacro(G, arg) ==
    LET prefix    == getCurrentMacroNamespace(G.ns, G.cm)
        macroUUID == getCurrentMacro(G.cm)
        selector  == Join(PrefixAll(Split(arg, ","), prefix), ",")
    IN  [G EXCEPT !.cur = selector,
                  !.sel = StripForeign(G.ns, getNodesWithSelector(G.lk, selector),
                                       1, macroUUID)]

\* find(selector) without the final _previousNode = null
findKeepsPrevious(G, selector) ==
    IF recordingMacro(G.cm) THEN findInMacro(G, selector)
    ELSE [G EXCEPT !.cur = selector, !.sel = getNodesWithSelector(G.lk, selector)]

\* find(selector)
find(G, selector) ==
    LET G1 == IF recordingMacro(G.cm) THEN findInMacro(G, selector)
              ELSE [G EXCEPT !.cur = selector,
                             !.sel = getNodesWithSelector(G.lk, selector)]
    IN  [G1 EXCEPT !.prev = 0]

\* find()
findNoArgs(G) == [reset(G) EXCEPT !.prev = 0]

-----------------------------------------------------------------------------
(* Connecting (src/dist/cracked.js:218-253) *)

\* the forEach of connectPreviousToSelected, from position i
RECURSIVE ConnectSelectedFrom(_, _, _)
ConnectSelectedFrom(G, pNode, i) ==
    IF i > Len(G.sel) THEN G
    ELSE IF pNode = 0 THEN ConnectSelectedFrom(G, pNode, i + 1)
    ELSE LET node == G.sel[i]
         IN  Then(Then(nodeConnect(G, pNode, node),
                       LAMBDA c : pushNextNode(c, pNode, node)),
                  LAMBDA q : ConnectSelectedFrom([q EXCEPT !.ns[node].prevNode = pNode],
                                                 pNode, i + 1))

connectPreviousToSelected(G) == ConnectSelectedFrom(G, G.prev, 1)

\* cracked.connect without the setPreviousNode(tmp) after find
connectForgetsSource(G, selector) == connectPreviousToSelected(find(G, selector))

\* cracked.connect(selector)
connect(G, selector) ==
    LET tmp == IF G.prev = 0 /\ Len(G.sel) # 0 THEN G.sel[1] ELSE G.prev
    IN  connectPreviousToSelected(setPreviousNode(find(G, selector), tmp))

-----------------------------------------------------------------------------
(* Removing (src/dist/cracked.js:1722-1771, 1952-1958) *)

\* the property name of _nodeStore that holds node uuid: the text generateUUID
\* made for it
uuidText(uuid) == "uuid-" \o ToString(uuid)

\* getNodeWithUUID(uuid) for a uuid text: the node, 0 for null
getNodeWithUUID(ns, uuid) ==
    IF uuid \in DOMAIN ns /\ ns[uuid].stored THEN uuid ELSE 0

\* delete _nodeStore[name]
deleteStoreProperty(ns, name) ==
    [u \in DOMAIN ns |-> IF uuidText(u) = name THEN [ns[u] EXCEPT !.stored = FALSE]
                         ELSE ns[u]]

\* arr.indexOf(x), from 1; 0 for -1
indexOf(arr, x) ==
    IF InArr(arr, x)
    THEN CHOOSE i \in 1..Len(arr) : arr[i] = x /\ \A j \in 1..(i - 1) : arr[j] # x
    ELSE 0

\* index = arr.indexOf(x); if (index > -1) arr.splice(index, 1)
spliceFirst(arr, x) == IF indexOf(arr, x) > 0 THEN RemoveAt(arr, indexOf(arr, x)) ELSE arr

\* new RegExp(clause + "\\s*") is a SyntaxError for a pattern that starts with
\* a quantifier
RegExpValid(clause) == CharAt(clause, 1) # "*"

\* the pattern clause matches key at position i: "." matches any character,
\* every other character of the modelled clauses matches itself
MatchesAt(key, clause, i) ==
    /\ i + Len(clause) - 1 <= Len(key)
    /\ \A j \in 1..Len(clause) :
          CharAt(clause, j) = "." \/ CharAt(key, i + j - 1) = CharAt(clause, j)

\* keyArr[j].match(new RegExp(clause + "\\s*")): a search, anywhere in the key
keyMatch(key, clause) == \E i \in 1..Len(key) : MatchesAt(key, clause, i)

\* the store property named by the uuid of the k-th node under the key, as
\* if remove deleted _nodeStore[_nodeLookup[keyArr[j]][k]]
storeNameAtUuid(key, k) == uuidText(nodeLookup[key][k])

\* [keyArr[j]][k]: the key for k = 0, undefined for every other k
storeNameAt(key, k) == IF k = 1 THEN key ELSE "undefined"

\* the for loop over tmp = _nodeLookup[key], from position k (from 1)
RECURSIVE RemoveIdsFrom(_, _, _)
RemoveIdsFrom(G, key, k) ==
    IF k > Len(G.lk[key]) THEN G
    ELSE IF "*" \notin DOMAIN G.lk THEN [G EXCEPT !.threw = TRUE]
    ELSE RemoveIdsFrom([G EXCEPT !.ns = deleteStoreProperty(@, storeNameAt(key, k)),
                                 !.lk["*"] = spliceFirst(@, G.lk[key][k])],
                       key, k + 1)

\* delete _nodeLookup[key]
deleteKey(lk, key) == [x \in DOMAIN lk \ {key} |-> lk[x]]

\* the for loop over keyArr, for the keys not visited yet (the effects of two
\* keys do not depend on their order)
RECURSIVE RemoveKeysFrom(_, _, _)
RemoveKeysFrom(G, clause, keyArr) ==
    IF keyArr = {} THEN G
    ELSE LET key == CHOOSE x \in keyArr : TRUE
         IN  IF keyMatch(key, clause)
             THEN Then(RemoveIdsFrom(G, key, 1),
                       LAMBDA G1 : RemoveKeysFrom([G1 EXCEPT !.lk = deleteKey(@, key)],
                                                  clause, keyArr \ {key}))
             ELSE RemoveKeysFrom(G, clause, keyArr \ {key})

\* the for loop over the clauses of _currentSelector, from position i
RECURSIVE RemoveClausesFrom(_, _, _)
RemoveClausesFrom(G, arr, i) ==
    IF i > Len(arr) THEN G
    ELSE IF arr[i] # "" /\ arr[i] \in DOMAIN G.lk
    THEN IF ~RegExpValid(arr[i]) THEN [G EXCEPT !.threw = TRUE]
         ELSE Then(RemoveKeysFrom(G, arr[i], DOMAIN G.lk),
                   LAMBDA G1 : RemoveClausesFrom(G1, arr, i + 1))
    ELSE RemoveClausesFrom(G, arr, i + 1)

\* cracked.remove()
remove(G) == RemoveClausesFrom(G, Split(G.cur, ","), 1)

-----------------------------------------------------------------------------
(* Start, stop and reset (src/dist/cracked.js:867-894, 1093-1131, 1353-1399) *)

\* the for loop of resetNode over nextNode, from position i
RECURSIVE ReconnectNextFrom(_, _, _)
ReconnectNextFrom(G, u, i) ==
    IF i > Len(G.ns[u].nextNode) THEN G
    ELSE Then(nodeConnect(G, u, G.ns[u].nextNode[i]),
              LAMBDA c : ReconnectNextFrom(c, u, i + 1))

\* resetNode without the restore of saved_buffer
resetLeafDropsBuffer(G, u) ==
    LET g  == G.ns[u].gen + 1
        G1 == [G EXCEPT !.ns[u].gen = g, !.nat = (<<u, g>> :> NewNative) @@ @]
    IN  Then(Then(ReconnectNextFrom(G1, u, 1), LAMBDA G2 : connectPrevious(G2, u)),
             LAMBDA G3 : [G3 EXCEPT !.ns[u].isPlaying = FALSE])

\* resetNode of a node that is not a macro (the else branch), this = node u
resetLeaf(G, u) ==
    LET saved_buffer == G.nat[<<u, G.ns[u].gen>>].buffer
        g  == G.ns[u].gen + 1
        G1 == [G EXCEPT !.ns[u].gen = g, !.nat = (<<u, g>> :> NewNative) @@ @]
    IN  Then(Then(ReconnectNextFrom(G1, u, 1), LAMBDA G2 : connectPrevious(G2, u)),
             LAMBDA G3 : IF saved_buffer # 0
                         THEN [G3 EXCEPT !.ns[u].isPlaying = FALSE,
                                         !.nat[<<u, g>>].buffer = saved_buffer]
                         ELSE [G3 EXCEPT !.ns[u].isPlaying = FALSE])

\* updateNativeNodeHelper: every primitive of node id in the member array of
\* macro m, and in the arrays nested in it, is replaced by newNode
RECURSIVE updateNativeNodeHelper(_, _, _, _)
updateNativeNodeHelper(ns, m, i, newNode) ==
    IF i > Len(ns[m].members) THEN ns
    ELSE LET n == ns[m].members[i]
         IN  IF n.k = "arr"
             THEN updateNativeNodeHelper(updateNativeNodeHelper(ns, n.u, 1, newNode),
                                         m, i + 1, newNode)
             ELSE IF n.u = newNode.u
                  THEN updateNativeNodeHelper([ns EXCEPT ![m].members[i] = newNode],
                                              m, i + 1, newNode)
                  ELSE updateNativeNodeHelper(ns, m, i + 1, newNode)

\* this.resetNode(currNode), this = node thisU
resetNode(G, thisU, currNode) ==
    IF isMacro(G.ns[thisU])
    THEN Then(resetLeaf(G, currNode.u),
              LAMBDA G1 : [G1 EXCEPT !.ns = updateNativeNodeHelper(@, thisU, 1,
                                                getNativeNode(G1.ns[currNode.u]))])
    ELSE resetLeaf(G, thisU)

\* this.start(nodeParam), this = node thisU.  The native start of a primitive
\* that was started before is an InvalidStateError.
RECURSIVE nodeStart(_, _, _)
RECURSIVE StartMembersFrom(_, _, _, _)
nodeStart(G, thisU, currNode) ==
    IF currNode.k = "arr" THEN StartMembersFrom(G, thisU, currNode.u, 1)
    ELSE IF currNode.k = "prim" /\ HasStart(G.ns[currNode.u].method)
              /\ ~G.ns[currNode.u].isPlaying
    THEN IF G.nat[<<currNode.u, currNode.g>>].started > 0
         THEN [G EXCEPT !.threw = TRUE]
         ELSE [G EXCEPT !.nat[<<currNode.u, currNode.g>>].started = 1,
                        !.ns[currNode.u].isPlaying = TRUE,
                        !.ns[thisU].isPlaying = TRUE]
    ELSE G

StartMembersFrom(G, thisU, m, i) ==
    IF i > Len(G.ns[m].members) THEN G
    ELSE Then(nodeStart(G, thisU, G.ns[m].members[i]),
              LAMBDA G1 : StartMembersFrom(G1, thisU, m, i + 1))

\* this.stop(nodeParam), this = node thisU.  The native stop of a primitive
\* that was never started is an InvalidStateError.
RECURSIVE nodeStop(_, _, _)
RECURSIVE StopMembersFrom(_, _, _, _)
nodeStop(G, thisU, currNode) ==
    IF currNode.k = "arr" THEN StopMembersFrom(G, thisU, currNode.u, 1)
    ELSE IF currNode.k = "prim" /\ HasStart(G.ns[currNode.u].method)
              /\ G.ns[currNode.u].isPlaying
    THEN IF G.nat[<<currNode.u, currNode.g>>].started = 0
         THEN [G EXCEPT !.threw = TRUE]
         ELSE Then(resetNode(G, thisU, currNode),
                   LAMBDA G1 : [G1 EXCEPT !.ns[currNode.u].isPlaying = FALSE,
                                          !.ns[thisU].isPlaying = FALSE])
    ELSE G

StopMembersFrom(G, thisU, m, i) ==
    IF i > Len(G.ns[m].members) THEN G
    ELSE Then(nodeStop(G, thisU, G.ns[m].members[i]),
              LAMBDA G1 : StopMembersFrom(G1, thisU, m, i + 1))

\* cracked.start(): the for loop over _selectedNodes, from position i
RECURSIVE StartSelectedFrom(_, _)
StartSelectedFrom(G, i) ==
    IF i > Len(G.sel) THEN G
    ELSE LET n == G.ns[G.sel[i]]
         IN  Then(IF ~n.isPlaying THEN nodeStart(G, n.uuid, getNativeNode(n)) ELSE G,
                  LAMBDA G1 : StartSelectedFrom(G1, i + 1))

start(G) == IF ~recordingMacro(G.cm) THEN StartSelectedFrom(G, 1) ELSE G

\* cracked.stop(): the for loop over _selectedNodes, from position i
RECURSIVE StopSelectedFrom(_, _)
StopSelectedFrom(G, i) ==
    IF i > Len(G.sel) THEN G
    ELSE LET n == G.ns[G.sel[i]]
         IN  Then(IF n.isPlaying THEN nodeStop(G, n.uuid, getNativeNode(n)) ELSE G,
                  LAMBDA G1 : StopSelectedFrom(G1, i + 1))

stop(G) == StopSelectedFrom(G, 1)

-----------------------------------------------------------------------------
(* Sequencing (src/src/sequence.js:11-230) *)

\* _loopInterval / 1000 seconds, in host time units of 1/70 s
IntervalTime(interval) == (7 * interval) \div 100

\* a timer armed with the period _loopInterval, the division by 1.75 forgotten
TickPeriodUndivided(interval) == (7 * interval) \div 100

\* the setInterval period _loopInterval / 1.75 ms, in the same units
TickPeriod(interval) == (4 * interval) \div 100

\* cracked.ifUndef(data[index], null)
DataAt(data, index) ==
    IF index >= 0 /\ index < Len(data) THEN data[index + 1] ELSE "null"

\* an index that goes back to 0 only from the last step, stepSize - 1
NextIndexWrapsAtLastOnly(index, stepSize) ==
    IF index = stepSize - 1 THEN 0 ELSE index + 1

\* (index < (stepSize - 1)) ? index + 1 : 0
NextIndex(index, stepSize) == IF index < stepSize - 1 THEN index + 1 ELSE 0

\* loopStep: the global index after the step
StepIndex == IF loopStepSize # 0 THEN NextIndex(loopIndex, loopStepSize) ELSE loopIndex

\* loopStep: listener i after the step
StepListener(listener) ==
    IF loopStepSize = 0 /\ listener.loopStepSize # 0
    THEN [listener EXCEPT !.loopIndex = NextIndex(@, listener.loopStepSize)]
    ELSE listener

\* loopStep: the callbacks it invokes, in order, each with the arguments it gets,
\* the _selectedNodes it runs with (a listener's: its own selection) and the
\* _loopTimeToNextStep it sees
StepCalls ==
    (IF loopCB # 0
     THEN << [who |-> 0, index |-> StepIndex, datum |-> DataAt(loopData, StepIndex),
              data |-> loopData,
              selection |-> selectedNodes, target |-> loopTimeToNextStep] >>
     ELSE << >>)
    \o [i \in 1..Len(loopListeners) |->
           [who |-> i, index |-> loopListeners[i].loopIndex,
            datum |-> DataAt(loopListeners[i].data, loopListeners[i].loopIndex),
            data |-> loopListeners[i].data,
            selection |-> loopListeners[i].selection,
            target |-> loopTimeToNextStep]]

\* checkup with the upper comparison written <= instead of <
InWindowInclusive(now) ==
    LET timeAtPreviousStep == loopTimeToNextStep - IntervalTime(loopInterval)
    IN  now <= loopTimeToNextStep /\ now > timeAtPreviousStep

\* checkup: does the tick fire a step?
\* checkup's test without now < _loopTimeToNextStep
InWindowAfterPreviousOnly(now) == now > loopTimeToNextStep - IntervalTime(loopInterval)

InWindow(now) ==
    LET timeAtPreviousStep == loopTimeToNextStep - IntervalTime(loopInterval)
    IN  now < loopTimeToNextStep /\ now > timeAtPreviousStep

\* what a callback does when it is called: callback 1 only looks at its
\* arguments, callback 2 runs cracked("osc"), callback 3 runs cracked.osc();
\* on the graphs they are run on none of them throws
runCallback(G, fn) ==
    CASE fn = 2 -> find(G, "osc")
      [] fn = 3 -> createNode(G, "osc", "createOscillator",
                              [id |-> "", class |-> "", modulates |-> ""])
      [] OTHER  -> G

\* the for loop of loopStep that leaves _selectedNodes as each callback left it
RECURSIVE RunListenersNoRestore(_, _, _)
RunListenersNoRestore(G, listeners, i) ==
    IF i > Len(listeners) THEN G
    ELSE RunListenersNoRestore(
            runCallback([G EXCEPT !.sel = listeners[i].selection], listeners[i].callback),
            listeners, i + 1)

\* _selectedNodes = tmp after a callback that left the graph G
restoreTmp(G, tmp) == [G EXCEPT !.sel = tmp]

\* the for loop of loopStep over _loopListeners, from position i: tmp =
\* _selectedNodes; _selectedNodes = listener.selection; callback; _selectedNodes = tmp
RECURSIVE RunListenersFrom(_, _, _)
RunListenersFrom(G, listeners, i) ==
    IF i > Len(listeners) THEN G
    ELSE RunListenersFrom(
            restoreTmp(runCallback([G EXCEPT !.sel = listeners[i].selection],
                                   listeners[i].callback),
                       G.sel),
            listeners, i + 1)

\* loopStep: the graph after the global callback and the listeners' callbacks
StepGraph ==
    RunListenersFrom(IF loopCB # 0 THEN runCallback(Graph, loopCB) ELSE Graph,
                     loopListeners, 1)

\* checkup() at host time now
checkup(now) ==
    IF InWindow(now)
    THEN /\ loopIndex' = StepIndex
         /\ SetGraph(StepGraph)
         /\ loopListeners' = [i \in 1..Len(loopListeners) |-> StepListener(loopListeners[i])]
         /\ calls' = StepCalls
         /\ loopTimeToNextStep' = loopTimeToNextStep + IntervalTime(loopInterval)
         /\ stepsFired' = stepsFired + 1
    ELSE /\ UNCHANGED <<loopIndex, loopListeners, loopTimeToNextStep, stepsFired>>
         /\ UNCHANGED graphVars
         /\ calls' = << >>

\* the last operation: its name and argument, whether an exception left it, the
\* node it created, the source node it connected from, the case it took and,
\* for a tick, whether a step fired and the global index it found
NoLast == [op |-> "", arg |-> "", threw |-> FALSE, node |-> 0, src |-> 0,
           case |-> "", fired |-> FALSE, result |-> << >>, hostFails |-> FALSE,
           was |-> -1]

\* startLoop without the test of _isLoopRunning: every start arms a timer and
\* sets the target time
startLoopRearms ==
    /\ loopTimeToNextStep' = currentTime + IntervalTime(loopInterval)
    /\ timerSeq' = timerSeq + 1
    /\ loopID' = timerSeq + 1
    /\ timers' = ((timerSeq + 1) :>
                    [period |-> TickPeriod(loopInterval),
                     armedAt |-> currentTime]) @@ timers
    /\ isLoopRunning' = TRUE
    /\ ignoreGrid' = FALSE
    /\ startedAt' = currentTime
    /\ stepsFired' = 0
    /\ last' = [NoLast EXCEPT !.op = "start"]
    /\ calls' = << >>
    /\ UNCHANGED <<graphVars, loopStepSize, loopInterval, loopCB, loopData, loopIndex,
                   loopListeners, currentTime>>

\* the body of startLoop
startLoopBody ==
    /\ IF ~isLoopRunning
       THEN /\ loopTimeToNextStep' = currentTime + IntervalTime(loopInterval)
            /\ timerSeq' = timerSeq + 1
            /\ loopID' = timerSeq + 1
            /\ timers' = ((timerSeq + 1) :>
                            [period |-> TickPeriod(loopInterval),
                             armedAt |-> currentTime]) @@ timers
            /\ isLoopRunning' = TRUE
            /\ ignoreGrid' = FALSE
            /\ startedAt' = currentTime
            /\ stepsFired' = 0
       ELSE UNCHANGED <<loopTimeToNextStep, timerSeq, loopID, timers, isLoopRunning,
                        ignoreGrid, obsVars>>
    /\ last' = [NoLast EXCEPT !.op = "start"]
    /\ calls' = << >>
    /\ UNCHANGED <<graphVars, loopStepSize, loopInterval, loopCB, loopData, loopIndex,
                   loopListeners, currentTime>>

\* loop("start"), while the host has timers to arm
startLoop ==
    /\ isLoopRunning \/ timerSeq < MaxTimers
    /\ startLoopBody

\* clearInterval(id)
clearInterval(id) == [t \in DOMAIN timers \ {id} |-> timers[t]]

\* loop("stop")
stopLoop ==
    /\ IF isLoopRunning
       THEN /\ timers' = clearInterval(loopID)
            /\ isLoopRunning' = FALSE
            /\ loopTimeToNextStep' = 0
            /\ ignoreGrid' = TRUE
       ELSE UNCHANGED <<timers, isLoopRunning, loopTimeToNextStep, ignoreGrid>>
    /\ last' = [NoLast EXCEPT !.op = "stop"]
    /\ calls' = << >>
    /\ UNCHANGED <<graphVars, loopStepSize, loopInterval, loopID, loopCB, loopData,
                   loopIndex, loopListeners, currentTime, timerSeq, obsVars>>

\* loop("reset") that leaves the listeners bound
resetLoopKeepsListeners ==
    /\ loopStepSize' = 16
    /\ loopInterval' = 100
    /\ ignoreGrid' = TRUE
    /\ loopID' = 0
    /\ loopCB' = 0
    /\ loopData' = << >>
    /\ loopIndex' = -1
    /\ isLoopRunning' = FALSE
    /\ loopTimeToNextStep' = 0
    /\ last' = [NoLast EXCEPT !.op = "reset"]
    /\ calls' = << >>
    /\ UNCHANGED <<graphVars, hostVars, obsVars, loopListeners>>

\* loop("reset")
resetLoop ==
    /\ loopStepSize' = 16
    /\ loopInterval' = 100
    /\ ignoreGrid' = TRUE
    /\ loopID' = 0
    /\ loopCB' = 0
    /\ loopData' = << >>
    /\ loopListeners' = << >>
    /\ loopIndex' = -1
    /\ isLoopRunning' = FALSE
    /\ loopTimeToNextStep' = 0
    /\ last' = [NoLast EXCEPT !.op = "reset"]
    /\ calls' = << >>
    /\ UNCHANGED <<graphVars, hostVars, obsVars>>

\* loop("toggle_grid")
toggleGrid ==
    /\ ignoreGrid' = IF isLoopRunning THEN ~ignoreGrid ELSE ignoreGrid
    /\ last' = [NoLast EXCEPT !.op = "toggle_grid"]
    /\ calls' = << >>
    /\ UNCHANGED <<graphVars, hostVars, obsVars, isLoopRunning, loopStepSize, loopInterval, loopID,
                   loopCB, loopData, loopIndex, loopListeners, loopTimeToNextStep>>

\* loop({steps: steps, interval: interval}, fn, data); 0 = the option is absent,
\* fn = 0: no function given, hasData = FALSE: no array given
configureLoop(steps, interval, fn, hasData, data) ==
    LET size == IF steps # 0 THEN steps ELSE 16
    IN  /\ loopStepSize' = size
        /\ loopInterval' = IF interval # 0 THEN interval ELSE 100
        /\ loopCB' = IF fn # 0 THEN fn ELSE loopCB
        /\ loopData' = IF hasData /\ Len(data) = size THEN data ELSE << >>
        /\ last' = [NoLast EXCEPT !.op = "configure"]
        /\ calls' = << >>
        /\ UNCHANGED <<graphVars, hostVars, obsVars, isLoopRunning, ignoreGrid, loopID, loopIndex,
                       loopListeners, loopTimeToNextStep>>

\* loop(interval): tempo only, no global step count
configureTempo(interval) ==
    /\ loopStepSize' = 0
    /\ loopInterval' = interval
    /\ loopData' = << >>
    /\ last' = [NoLast EXCEPT !.op = "tempo"]
    /\ calls' = << >>
    /\ UNCHANGED <<graphVars, hostVars, obsVars, isLoopRunning, ignoreGrid, loopID, loopCB,
                   loopIndex, loopListeners, loopTimeToNextStep>>

\* the body of bind: _loopListeners.push({...})
pushListener(fn, data) ==
    /\ loopListeners' = Append(loopListeners,
            [callback |-> fn, data |-> data, loopStepSize |-> Len(data),
             loopIndex |-> -1, selection |-> selectedNodes,
             selector |-> currentSelector])
    /\ last' = [NoLast EXCEPT !.op = "bind"]
    /\ calls' = << >>
    /\ UNCHANGED <<graphVars, hostVars, obsVars, isLoopRunning, ignoreGrid, loopStepSize,
                   loopInterval, loopID, loopCB, loopData, loopIndex, loopTimeToNextStep>>

\* bind("step", fn, data)
bind(fn, data) ==
    /\ Len(loopListeners) < MaxListeners
    /\ pushListener(fn, data)

\* the forEach of unbind with the comparison turned round
tmpMatching(listeners, selector) ==
    SelectSeq(listeners, LAMBDA el : selector = el.selector)

\* the forEach of unbind: tmp, the listeners recorded under another selector
tmpOthers(listeners, selector) ==
    SelectSeq(listeners, LAMBDA el : selector # el.selector)

\* unbind(eventType)
unbind(eventType) ==
    /\ loopListeners' = IF eventType = "step"
                        THEN tmpOthers(loopListeners, currentSelector)
                        ELSE loopListeners
    /\ last' = [NoLast EXCEPT !.op = "unbind", !.arg = eventType,
                              !.case = IF eventType = "step"
                                          /\ \E i \in 1..Len(loopListeners) :
                                                loopListeners[i].selector = currentSelector
                                       THEN "removed" ELSE "kept"]
    /\ calls' = << >>
    /\ UNCHANGED <<graphVars, hostVars, obsVars, isLoopRunning, ignoreGrid, loopStepSize,
                   loopInterval, loopID, loopCB, loopData, loopIndex, loopTimeToNextStep>>

\* a tick of an armed timer at the current host time, whenever the host runs it
Tick ==
    /\ \E id \in DOMAIN timers : TRUE
    /\ checkup(currentTime)
    /\ last' = [NoLast EXCEPT !.op = "tick", !.fired = InWindow(currentTime),
                              !.was = loopIndex]
    /\ UNCHANGED <<hostVars, startedAt, isLoopRunning, ignoreGrid, loopStepSize,
                   loopInterval, loopID, loopCB, loopData>>

\* host time passes
Advance(d) ==
    /\ currentTime + d <= MaxTime
    /\ currentTime' = currentTime + d
    /\ last' = [NoLast EXCEPT !.op = "advance"]
    /\ calls' = << >>
    /\ UNCHANGED <<graphVars, loopVars, timers, timerSeq, obsVars>>

\* when timer id ticks next after host time now: every period from its arming
Due(id, now) ==
    timers[id].armedAt
        + timers[id].period * (((now - timers[id].armedAt) \div timers[id].period) + 1)

\* steady host: the armed timer that is due first ticks exactly when it is due
SteadyTick ==
    \E id \in DOMAIN timers :
        /\ \A other \in DOMAIN timers : Due(id, currentTime) <= Due(other, currentTime)
        /\ Due(id, currentTime) <= MaxSteadyTime
        /\ currentTime' = Due(id, currentTime)
        /\ checkup(Due(id, currentTime))
        /\ last' = [NoLast EXCEPT !.op = "tick", !.fired = InWindow(Due(id, currentTime)),
                                  !.was = loopIndex]
        /\ UNCHANGED <<timers, timerSeq, startedAt, isLoopRunning, ignoreGrid,
                       loopStepSize, loopInterval, loopID, loopCB, loopData>>

-----------------------------------------------------------------------------
(* The public graph operations as actions *)

LoopUnchanged == UNCHANGED <<loopVars, hostVars, obsVars>>

\* the operation leaves the graph G; l records what was called
Does(G, l) == SetGraph(G) /\ last' = [l EXCEPT !.threw = G.threw]

\* which nodes a new node is chained from
ChainCase == IF Len(selectedNodes) # 0 THEN "selection"
             ELSE IF previousNode # 0 THEN "previous" ELSE "none"

Settings(id, class, modulates) == [id |-> id, class |-> class, modulates |-> modulates]

\* cracked.osc(settings), cracked.gain(settings)
Creates(type, method, settings) ==
    /\ Does(createNode(Graph, type, method, settings),
            [NoLast EXCEPT !.op = "create", !.arg = type,
                           !.node = Len(nodeStore) + 1, !.src = previousNode,
                           !.case = ChainCase])
    /\ calls' = << >>
    /\ LoopUnchanged

\* cracked.osc(settings), cracked.gain(settings), while the store has room
CreateLeaf(type, method, settings) ==
    /\ Len(nodeStore) < MaxNodes
    /\ Creates(type, method, settings)

\* cracked.osc(settings) while the host rejects native connects
CreateLeafHostFails(type, method, settings) ==
    /\ Len(nodeStore) < MaxNodes
    /\ Does(createNode([Graph EXCEPT !.hostFails = TRUE], type, method, settings),
            [NoLast EXCEPT !.op = "create", !.arg = type,
                           !.node = Len(nodeStore) + 1, !.src = previousNode,
                           !.case = ChainCase, !.hostFails = TRUE])
    /\ calls' = << >>
    /\ LoopUnchanged

\* cracked.buffer({fn: ...}) (buf # 0) or cracked.buffer() (buf = 0)
CreateBuffer(settings, buf) ==
    /\ Len(nodeStore) < MaxNodes
    /\ Does(bufferNode(Graph, settings, buf),
            [NoLast EXCEPT !.op = "create", !.arg = "buffer",
                           !.node = Len(nodeStore) + 1, !.src = previousNode,
                           !.case = ChainCase])
    /\ calls' = << >>
    /\ LoopUnchanged

\* cracked.begin(name, settings)
Begins(name, settings) ==
    /\ SetGraph(begin(Graph, name, settings))
    /\ last' = [NoLast EXCEPT !.op = "begin", !.arg = name, !.node = Len(nodeStore) + 1,
                              !.case = "macro"]
    /\ calls' = << >>
    /\ LoopUnchanged

\* cracked.begin(name, settings), while the store has room
Begin(name, settings) ==
    /\ Len(nodeStore) < MaxNodes
    /\ Begins(name, settings)

\* cracked.end(name)
End(name) ==
    /\ SetGraph(end(Graph, name))
    /\ last' = [NoLast EXCEPT !.op = "end", !.arg = name, !.node = getCurrentMacro(currentMacro),
                              !.case = IF end(Graph, name).cm # currentMacro
                                       THEN "popped" ELSE "ignored"]
    /\ calls' = << >>
    /\ LoopUnchanged

\* cracked(selector)
Find(selector) ==
    /\ SetGraph(find(Graph, selector))
    /\ last' = [NoLast EXCEPT !.op = "find", !.arg = selector, !.src = previousNode,
                              !.case = IF recordingMacro(currentMacro)
                                       THEN "recording" ELSE "global"]
    /\ calls' = << >>
    /\ LoopUnchanged

\* cracked()
FindNoArgs ==
    /\ SetGraph(findNoArgs(Graph))
    /\ last' = [NoLast EXCEPT !.op = "find()", !.src = previousNode]
    /\ calls' = << >>
    /\ LoopUnchanged

\* str.match(/^\.|\#/) ? str.substring(1) : str
filterMatch(str) ==
    IF (Len(str) > 0 /\ CharAt(str, 1) = ".") \/ Contains(str, "#")
    THEN SubSeq(str, 2, Len(str)) ELSE str

\* the forEach of cracked.filter over _selectedNodes, from position i
RECURSIVE FilterFrom(_, _, _, _)
FilterFrom(G, str, i, tmp) ==
    IF i > Len(G.sel) THEN tmp
    ELSE LET node == G.ns[G.sel[i]]
             selectorType == getSelectorType(str)
             match == filterMatch(str)
         IN  FilterFrom(G, str, i + 1,
                        IF \/ selectorType = "type" /\ node.type = match
                           \/ selectorType = "class" /\ node.class = match
                           \/ selectorType = "id" /\ node.id = match
                        THEN Append(tmp, G.sel[i]) ELSE tmp)

\* cracked.filter(str): the array returned
filter(G, str) == FilterFrom(G, str, 1, << >>)

\* cracked.filter(str)
Filter(str) ==
    /\ last' = [NoLast EXCEPT !.op = "filter", !.arg = str, !.result = filter(Graph, str)]
    /\ calls' = << >>
    /\ UNCHANGED graphVars
    /\ LoopUnchanged

\* cracked.remove()
Remove ==
    /\ Does(remove(Graph), [NoLast EXCEPT !.op = "remove", !.arg = currentSelector])
    /\ calls' = << >>
    /\ LoopUnchanged

MaxNext == 2        \* links a node has recorded when one more connect is issued

\* cracked.connect(selector)
Connect(selector) ==
    /\ \A u \in 1..Len(nodeStore) : Len(nodeStore[u].nextNode) < MaxNext
    /\ Does(connect(Graph, selector),
            [NoLast EXCEPT !.op = "connect", !.arg = selector,
                  !.src = IF previousNode # 0 THEN previousNode
                          ELSE IF Len(selectedNodes) # 0 THEN selectedNodes[1] ELSE 0,
                  !.case = IF previousNode # 0 THEN "previous"
                           ELSE IF Len(selectedNodes) # 0 THEN "selection"
                           ELSE "none"])
    /\ calls' = << >>
    /\ LoopUnchanged

\* cracked.start()
Start ==
    /\ Does(start(Graph), [NoLast EXCEPT !.op = "start"])
    /\ calls' = << >>
    /\ LoopUnchanged

MaxResets == 2      \* primitives rebuilt for one node in one run

\* cracked.stop()
Stop ==
    /\ \A u \in 1..Len(nodeStore) : nodeStore[u].gen < MaxResets
    /\ Does(stop(Graph), [NoLast EXCEPT !.op = "stop"])
    /\ calls' = << >>
    /\ LoopUnchanged

-----------------------------------------------------------------------------
(* Initial state: src/dist/cracked.js:5-12 and src/src/sequence.js:11-20 *)

Init ==
    /\ nodeStore = << >>
    /\ nodeLookup = [key \in {} |-> << >>]
    /\ previousNode = 0
    /\ selectedNodes = << >>
    /\ currentSelector = ""
    /\ currentMacro = << >>
    /\ natives = [h \in {} |-> NewNative]
    /\ edges = {}
    /\ isLoopRunning = FALSE
    /\ ignoreGrid = TRUE
    /\ loopStepSize = 16
    /\ loopInterval = 100
    /\ loopID = 0
    /\ loopCB = 0
    /\ loopData = << >>
    /\ loopIndex = -1
    /\ loopListeners = << >>
    /\ loopTimeToNextStep = 0
    /\ currentTime = 0
    /\ timers = [id \in {} |-> [period |-> 0, armedAt |-> 0]]
    /\ timerSeq = 0
    /\ last = NoLast
    /\ calls = << >>
    /\ startedAt = 0
    /\ stepsFired = 0

-----------------------------------------------------------------------------
(* Specifications *)

\* the data arrays given to loop and bind
DataArrays == {<< >>, <<"a", "b">>}

\* host time passes while no timer is armed
IdleAdvance(d) ==
    /\ DOMAIN timers = {}
    /\ currentTime + d <= MaxTime
    /\ currentTime' = currentTime + d
    /\ last' = [NoLast EXCEPT !.op = "advance"]
    /\ calls' = << >>
    /\ UNCHANGED <<graphVars, loopVars, timers, timerSeq, obsVars>>

\* SpecLoop: the sequencer under a free-running host: ticks arrive at any host time
NextLoop ==
    \/ startLoop
    \/ resetLoop
    \/ \E stepCount \in {0, 2}, interval \in {0, 200}, data \in DataArrays :
          configureLoop(stepCount, interval, 1, data # << >>, data)
    \/ configureTempo(100)
    \/ \E data \in DataArrays : bind(1, data)
    \/ Tick
    \/ \E d \in {3, 4} : Advance(d)

SpecLoop == Init /\ [][NextLoop]_vars

\* SpecSteady: the loop is configured while stopped, then started; host time
\* advances steadily and the one armed timer ticks exactly every interval/1.75
NextSteady ==
    \/ startLoop
    \/ \E stepCount \in {0, 2}, interval \in {0, 200, 300} :
          ~isLoopRunning /\ configureLoop(stepCount, interval, 1, FALSE, << >>)
    \/ \E interval \in {100, 200} : ~isLoopRunning /\ configureTempo(interval)
    \/ \E d \in {1, 5} : IdleAdvance(d)
    \/ SteadyTick

SpecSteady == Init /\ [][NextSteady]_vars

\* Spec: the registry and the selector engine: oscillators with and without a
\* user id and class, inside and outside a macro "M", and queries
NoSettings == Settings("", "", "")

SelectorTexts == {"osc", "#x", ".bar", "M osc", "M #x", "M .bar", "*",
                  "osc,#x,osc", "M #x,M osc", "M", "nope"}

Next ==
    \/ \E id \in {"", "x"}, class \in {"", "bar"} :
          CreateLeaf("osc", "createOscillator", Settings(id, class, ""))
    \/ Begin("M", NoSettings)
    \/ End("M")
    \/ \E selector \in SelectorTexts : Find(selector)
    \/ FindNoArgs

Spec == Init /\ [][Next]_vars

\* SpecConnect: chaining and connecting: oscillators and buffer sources, inside
\* and outside a macro "M" that may declare the parameter it modulates

NextConnect ==
    \/ CreateLeaf("osc", "createOscillator", NoSettings)
    \/ CreateBuffer(NoSettings, 0)
    \/ \E modulates \in {"", "speed"} : Begin("M", Settings("", "", modulates))
    \/ End("M")
    \/ \E selector \in {"osc", "M", "nope"} : Find(selector)
    \/ \E selector \in {"osc", "buffer", "M", "osc,buffer"} : Connect(selector)
    \/ FindNoArgs

SpecConnect == Init /\ [][NextConnect]_vars

\* SpecReset: one-shot nodes chained, started and stopped: oscillators and
\* buffer sources with and without a sample buffer, alone and in a macro "M"

NextReset ==
    \/ CreateLeaf("osc", "createOscillator", NoSettings)
    \/ \E buf \in {0, 1} : CreateBuffer(NoSettings, buf)
    \/ Begin("M", NoSettings)
    \/ End("M")
    \/ \E selector \in {"*", "buffer", "M"} : Find(selector)
    \/ Start
    \/ Stop

SpecReset == Init /\ [][NextReset]_vars

-----------------------------------------------------------------------------
(* The step window (src/src/sequence.js:152-159) *)

\* the host time of a tick lies strictly inside the window that ends at the target
WindowOpen ==
    /\ loopTimeToNextStep - IntervalTime(loopInterval) < currentTime
    /\ currentTime < loopTimeToNextStep

\* the step indices: the global one and every listener's
StepIndices == <<loopIndex, [i \in 1..Len(loopListeners) |-> loopListeners[i].loopIndex]>>

\* C1: a timer tick fires a step if and only if target - interval < now < target,
\* both comparisons strict, for the host time read at that tick; a tick that
\* fires runs the callbacks (the global one if set, then every listener's) while
\* the target is still the old one and then advances the target by exactly one
\* interval; a tick that does not fire runs no callback and leaves the target
\* and every step index unchanged.
TickFiresInsideWindowOnly ==
    [][last'.op = "tick" =>
        /\ (stepsFired' = stepsFired + 1) <=> WindowOpen
        /\ stepsFired' \in {stepsFired, stepsFired + 1}
        /\ WindowOpen =>
              /\ loopTimeToNextStep' = loopTimeToNextStep + IntervalTime(loopInterval)
              /\ Len(calls') = (IF loopCB # 0 THEN 1 ELSE 0) + Len(loopListeners)
              /\ \A i \in 1..Len(calls') : calls'[i].target = loopTimeToNextStep
        /\ ~WindowOpen =>
              /\ loopTimeToNextStep' = loopTimeToNextStep
              /\ StepIndices' = StepIndices
              /\ calls' = << >>
      ]_vars

\* a tick has just fired a step whose global callback and listener both ran
TickFiredWithCallbacks ==
    /\ last.op = "tick"
    /\ last.fired
    /\ Len(calls) = 2
    /\ calls[1].target = loopTimeToNextStep - IntervalTime(loopInterval)

-----------------------------------------------------------------------------
(* Steady ticks (src/src/sequence.js:83-90, 152-159) *)

\* host time since loop("start")
Elapsed == currentTime - startedAt

\* ten intervals of host time have passed since loop("start"): the state the
\* last tick before that time left
TenIntervalsPassed ==
    /\ isLoopRunning
    /\ Elapsed <= 10 * IntervalTime(loopInterval)
    /\ Elapsed + TickPeriod(loopInterval) > 10 * IntervalTime(loopInterval)

\* the windows fire one after the other, each once, and the next one is never
\* missed: the target is that of the window after the last fired one, and stays
\* ahead of the host time by less than two intervals
EveryWindowFiresOnce ==
    isLoopRunning =>
        /\ loopTimeToNextStep = startedAt + (stepsFired + 1) * IntervalTime(loopInterval)
        /\ currentTime < loopTimeToNextStep
        /\ loopTimeToNextStep - currentTime < 2 * IntervalTime(loopInterval)

\* C2, as amended: after loop("start") with interval I, with host time advancing
\* steadily and ticks every I/1.75, no window fires twice and none is skipped,
\* and after 10 intervals 10 steps have fired, plus or minus 1; the global step
\* index has advanced once per step when a global step count is configured, and
\* not at all when the loop was configured with a tempo only.
SteadyTicksFireEveryWindowOnce ==
    /\ EveryWindowFiresOnce
    /\ TenIntervalsPassed => stepsFired \in 9..11
    /\ isLoopRunning =>
          loopIndex = IF loopStepSize # 0 /\ stepsFired > 0
                      THEN (stepsFired - 1) % loopStepSize ELSE -1

\* C2, as stated: no window fires twice and none is skipped, and after 10
\* intervals the global step index has advanced 10 times, plus or minus 1, from
\* its initial -1 (around the step count, when one is configured).
SteadyTicksAdvanceGlobalIndex ==
    /\ EveryWindowFiresOnce
    /\ TenIntervalsPassed =>
          \E k \in 9..11 :
              loopIndex = IF loopStepSize # 0 THEN (k - 1) % loopStepSize ELSE k - 1

\* ten intervals of 100 ms have passed since the start and ten steps have fired
TenIntervalsTenSteps ==
    /\ TenIntervalsPassed
    /\ loopInterval = 100
    /\ loopStepSize = 16
    /\ last.op = "tick"
    /\ stepsFired = 10
    /\ loopIndex = 9

-----------------------------------------------------------------------------
(* Selector lookup (src/dist/cracked.js:1780-1797, 1935-1945) *)

Elements(arr) == {arr[i] : i \in 1..Len(arr)}

NoDuplicates(arr) == \A i, j \in 1..Len(arr) : arr[i] = arr[j] => i = j

\* the position of the first x in arr
FirstAt(arr, x) == CHOOSE i \in 1..Len(arr) : arr[i] = x /\ \A j \in 1..(i - 1) : arr[j] # x

\* a keeps elements of b, each once, in the order of their first occurrence in b
InFirstOccurrenceOrder(a, b) ==
    /\ NoDuplicates(a)
    /\ Elements(a) \subseteq Elements(b)
    /\ \A i, j \in 1..Len(a) : i < j => FirstAt(b, a[i]) < FirstAt(b, a[j])

\* what the clauses match, one after the other, left to right
RECURSIVE Matches(_, _)
Matches(lk, clauses) ==
    IF Len(clauses) = 0 THEN << >>
    ELSE ClauseNodes(lk, Head(clauses)) \o Matches(lk, Tail(clauses))

\* C3: for every comma-separated selector text the lookup returns the ids its
\* clauses match with no duplicates, in the order of their first match when the
\* clauses are scanned left to right: an id matched several times appears once,
\* at the position of its first match.
LookupIsOrderedSet ==
    \A selector \in SelectorTexts :
        LET result == getNodesWithSelector(nodeLookup, selector)
            all    == Matches(nodeLookup, Split(selector, ","))
        IN  /\ Elements(result) = Elements(all)
            /\ InFirstOccurrenceOrder(result, all)

\* find("osc,#x,osc") has selected two nodes that its clauses matched five times
LookupMergedRepeatedMatches ==
    LET result == getNodesWithSelector(nodeLookup, "osc,#x,osc")
        all    == Matches(nodeLookup, Split("osc,#x,osc", ","))
    IN  /\ last.op = "find"
        /\ last.arg = "osc,#x,osc"
        /\ selectedNodes = result
        /\ Len(result) = 2
        /\ Len(all) = 5

\* C4: an id clause resolves to at most one node id even when several nodes
\* share the user id: looked up globally as "#x", looked up as "M #x" (the
\* namespaced clause of a node recorded in macro "M"), and as the selection
\* find("#x") or find("M #x") leaves, while recording or not.
IdClauseYieldsAtMostOne ==
    /\ \A clause \in {"#x", "M #x"} : Len(getNodesWithSelector(nodeLookup, clause)) <= 1
    /\ (last.op = "find" /\ last.arg \in {"#x", "M #x"}) => Len(selectedNodes) <= 1

-----------------------------------------------------------------------------
(* Macro namespaces (src/dist/cracked.js:426-436, 1698-1715) *)

\* node u was created while a macro of type "M", itself outside any macro, was
\* the one recording
CreatedInTopLevelM(u) ==
    LET m == nodeStore[u].macroContainerUUID
    IN  m # 0 /\ nodeStore[m].type = "M" /\ nodeStore[m].macroContainerUUID = 0

\* the bare clauses of a node: its type, its .class and its #id
BareClauses(n) ==
    {n.type} \cup (IF n.class # "" THEN {"." \o n.class} ELSE {})
             \cup (IF n.id # "" THEN {"#" \o n.id} ELSE {})

\* C5: a node created while a top-level macro of type "M" is recording is never
\* returned by the global lookup of its bare type, .class or #id clause, before
\* or after end("M"); once end("M") has closed the macro the global lookup of
\* the same clause prefixed with "M " returns it.
RecordedNodesLiveInMacroNamespace ==
    \A u \in 1..Len(nodeStore) :
        CreatedInTopLevelM(u) =>
            \A clause \in BareClauses(nodeStore[u]) :
                /\ ~InArr(getNodesWithSelector(nodeLookup, clause), u)
                /\ ~InArr(currentMacro, nodeStore[u].macroContainerUUID)
                       => InArr(getNodesWithSelector(nodeLookup, "M " \o clause), u)

\* after end("M") a global find("M #x") has selected a node recorded in M that
\* has a class and an id, and that no bare clause finds
RecordedNodeFoundByPrefixedClause ==
    /\ currentMacro = << >>
    /\ last.op = "find"
    /\ last.arg = "M #x"
    /\ \E u \in 1..Len(nodeStore) :
          /\ CreatedInTopLevelM(u)
          /\ nodeStore[u].id = "x"
          /\ nodeStore[u].class = "bar"
          /\ InArr(selectedNodes, u)
          /\ \A clause \in {"osc", ".bar", "#x"} :
                ~InArr(getNodesWithSelector(nodeLookup, clause), u)

-----------------------------------------------------------------------------
(* Connection routing (src/dist/cracked.js:1307-1324, 1434-1497) *)

\* the wrapper connections the step makes: <<A, B>>, for node creation and
\* for cracked.connect
ConnectedPairs ==
    IF last'.op = "create" /\ last'.case = "selection"
    THEN {<<selectedNodes[i], last'.node>> : i \in 1..Len(selectedNodes)}
    ELSE IF last'.op = "create" /\ last'.case = "previous"
    THEN {<<previousNode, last'.node>>}
    ELSE IF last'.op = "connect" /\ last'.src # 0
    THEN {<<last'.src, selectedNodes'[i]>> : i \in 1..Len(selectedNodes')}
            \ {<<last'.src, last'.src>>}
    ELSE {}

\* the name of B's control parameter for the modulated parameter name, through
\* B's parameter-mapping table
ControlParameter(B, name) == StripValue(resolveParamMapping(name, getParamMapping(B)))

\* the native edge from A's primitive to B's primitive, and the native edges
\* the step adds from A's primitive to parameters of B
PlainEdge(a, b) == << <<a, nodeStore'[a].gen>>, Prim(b, nodeStore'[b].gen) >>
NewParamEdges(a, b) ==
    {e \in edges' \ edges : e[1][1] = a /\ e[2].k = "param" /\ e[2].u = b}

\* C6: when node A belongs to a macro that declares a modulated parameter name
\* and node B lies outside that macro, connecting A to B makes the native edge
\* from A's primitive to B's control parameter, found through B's
\* parameter-mapping table, and adds none to B's primitive; when B has the same
\* macro owner as A the edge is a plain primitive-to-primitive one and no edge to
\* a parameter of B is added.  (A and B are leaves; B exposes the parameter.)
ModulatorRoutesToControlParameter ==
    [][~last'.threw =>
        \A pair \in ConnectedPairs :
            LET A == nodeStore'[pair[1]]
                B == nodeStore'[pair[2]]
                m == A.macroContainerUUID
            IN  (~isMacro(A) /\ ~isMacro(B) /\ m # 0 /\ nodeStore'[m].modulates # "") =>
                    LET name == ControlParameter(B, nodeStore'[m].modulates)
                    IN  /\ (B.macroContainerUUID # m /\ name \in AudioParams(B.method)) =>
                              /\ << <<A.uuid, A.gen>>, Param(B.uuid, B.gen, name) >> \in edges'
                              /\ PlainEdge(A.uuid, B.uuid) \notin edges' \ edges
                        /\ B.macroContainerUUID = m =>
                              /\ PlainEdge(A.uuid, B.uuid) \in edges'
                              /\ NewParamEdges(A.uuid, B.uuid) = {}
      ]_vars

\* a member of a macro that modulates "speed" has been connected to a buffer
\* source outside the macro: the edge ends at the playbackRate parameter
ModulatorEdgeToPlaybackRate ==
    /\ last.op \in {"create", "connect"}
    /\ ~last.threw
    /\ \E e \in edges :
          /\ e[2].k = "param"
          /\ e[2].p = "playbackRate"
          /\ nodeStore[e[2].u].macroContainerUUID = 0
          /\ nodeStore[e[1][1]].macroContainerUUID # 0
          /\ nodeStore[nodeStore[e[1][1]].macroContainerUUID].modulates = "speed"

-----------------------------------------------------------------------------
(* Reset of one-shot nodes (src/dist/cracked.js:1113-1131, 1353-1380) *)

\* C7: resetting a one-shot node, which stop does after the native stop of a
\* playing node, leaves the node's id, its recorded next list and its recorded
\* previous node unchanged, gives the fresh primitive the sample buffer the old
\* primitive held, and leaves the playing flag false once stop returns; every
\* selected playing one-shot leaf is reset.
StopResetsOneShotNodes ==
    [][(last'.op = "stop" /\ ~last'.threw) =>
        \A u \in 1..Len(nodeStore) :
            /\ (InArr(selectedNodes, u) /\ ~isMacro(nodeStore[u]) /\ nodeStore[u].isPlaying)
                  => nodeStore'[u].gen = nodeStore[u].gen + 1
            /\ nodeStore'[u].gen # nodeStore[u].gen =>
                  /\ nodeStore'[u].gen = nodeStore[u].gen + 1
                  /\ nodeStore'[u].uuid = nodeStore[u].uuid
                  /\ nodeStore'[u].id = nodeStore[u].id
                  /\ nodeStore'[u].nextNode = nodeStore[u].nextNode
                  /\ nodeStore'[u].prevNode = nodeStore[u].prevNode
                  /\ natives'[<<u, nodeStore'[u].gen>>].buffer
                        = natives[<<u, nodeStore[u].gen>>].buffer
                  /\ natives'[<<u, nodeStore'[u].gen>>].started = 0
                  /\ ~nodeStore'[u].isPlaying
      ]_vars

\* stop has reset a buffer source that has a previous node, a next node and a
\* sample buffer
BufferSourceResetInChain ==
    /\ last.op = "stop"
    /\ ~last.threw
    /\ \E u \in 1..Len(nodeStore) :
          /\ nodeStore[u].type = "buffer"
          /\ nodeStore[u].gen = 1
          /\ nodeStore[u].prevNode # 0
          /\ nodeStore[u].nextNode # << >>
          /\ natives[<<u, 1>>].buffer = 1
          /\ ~nodeStore[u].isPlaying

-----------------------------------------------------------------------------
(* Default chaining at creation (src/dist/cracked.js:1006-1032) *)

\* the leaf whose primitive a connection from node u starts at
RECURSIVE FromWrapper(_, _)
FromWrapper(ns, u) ==
    IF isMacro(ns[u]) /\ Len(ns[u].members) # 0
    THEN FromWrapper(ns, Last(ns[u].members).u)
    ELSE u

\* the step has connected a to b: the native edge between the resolved
\* endpoints, where they can be connected, and b in the next list of the node
\* the edge starts at
Wired(a, b) ==
    LET nodes == getNodesToConnect(nodeStore', nodeStore'[a], nodeStore'[b])
    IN  /\ Connectable(nodes) => << <<nodes.from.u, nodes.from.g>>, nodes.to >> \in edges'
        /\ InArr(nodeStore'[FromWrapper(nodeStore', a)].nextNode, b)

\* no native edge and no adjacency is added
NothingWired ==
    /\ edges' = edges
    /\ \A u \in 1..Len(nodeStore) :
          /\ nodeStore'[u].nextNode = nodeStore[u].nextNode
          /\ nodeStore'[u].prevNode = nodeStore[u].prevNode

\* C8: a non-macro node that is created is connected from every selected node
\* if the selection is non-empty, otherwise from the previous node if one is
\* set, otherwise from nothing; in all three cases, when the creation returns,
\* the selection and the selector text are empty and the new node is the
\* previous node.
CreateChainsFromSelectionElsePrevious ==
    [][(last'.op = "create" /\ ~last'.threw) =>
        LET new     == last'.node
            sources == IF Len(selectedNodes) # 0 THEN selectedNodes
                       ELSE IF previousNode # 0 THEN << previousNode >> ELSE << >>
        IN  /\ new = Len(nodeStore) + 1
            /\ Len(nodeStore') = new
            /\ selectedNodes' = << >>
            /\ currentSelector' = ""
            /\ previousNode' = new
            /\ \A i \in 1..Len(sources) : Wired(sources[i], new)
            /\ \A e \in edges' \ edges :
                  e[2].u = new /\ e[1][1] \in {FromWrapper(nodeStore', sources[i]) :
                                                  i \in 1..Len(sources)}
            /\ Len(sources) # 0 => nodeStore'[new].prevNode = Last(sources)
            /\ Len(sources) = 0 => NothingWired /\ nodeStore'[new].prevNode = 0
      ]_vars

\* a node has been created with two nodes selected and is connected from both
CreatedFromTwoSelected ==
    /\ last.op = "create"
    /\ last.case = "selection"
    /\ ~last.threw
    /\ previousNode = last.node
    /\ selectedNodes = << >>
    /\ Cardinality({e \in edges : e[2].u = last.node}) = 2

-----------------------------------------------------------------------------
(* find (src/src/sequence.js:314-334, src/dist/cracked.js:91-147, 323-327) *)

\* the clauses of a selector, each with the namespace put in front unless the
\* clause contains it
Namespaced(selector, prefix) ==
    LET clauses == Split(selector, ",")
    IN  [i \in 1..Len(clauses) |->
            IF Contains(clauses[i], prefix) THEN clauses[i] ELSE prefix \o clauses[i]]

\* find(): selection, selector text and previous node are cleared
FindNoArgsClears ==
    last'.op = "find()" =>
        selectedNodes' = << >> /\ currentSelector' = "" /\ previousNode' = 0

-----------------------------------------------------------------------------
(* cracked.connect (src/dist/cracked.js:218-253) *)

\* C10: connect(selector) takes as source the previous node if one is set,
\* otherwise the first selected node; it replaces the selection with the nodes
\* find(selector) selects, connects the source to every one of them (each gets
\* the source as its previous node), and leaves the previous node equal to the
\* source; with neither a previous node nor a selection nothing is connected.
ConnectWiresSourceToSelection ==
    [][(last'.op = "connect" /\ ~last'.threw) =>
        LET src == IF previousNode # 0 THEN previousNode
                   ELSE IF Len(selectedNodes) # 0 THEN selectedNodes[1] ELSE 0
        IN  /\ selectedNodes' = find(Graph, last'.arg).sel
            /\ currentSelector' = find(Graph, last'.arg).cur
            /\ previousNode' = src
            /\ src # 0 =>
                  \A i \in 1..Len(selectedNodes') :
                      /\ nodeStore'[selectedNodes'[i]].prevNode = src
                      /\ selectedNodes'[i] # src => Wired(src, selectedNodes'[i])
            /\ src = 0 => NothingWired
      ]_vars

\* connect, issued with a selection of two and no previous node, has connected
\* the first selected node to another node and made it the previous node
ConnectedFromFirstSelected ==
    /\ last.op = "connect"
    /\ last.case = "selection"
    /\ ~last.threw
    /\ previousNode = last.src
    /\ last.src # 0
    /\ Len(selectedNodes) >= 2
    /\ \E i \in 1..Len(selectedNodes) :
          /\ selectedNodes[i] # last.src
          /\ nodeStore[selectedNodes[i]].prevNode = last.src
          /\ << <<last.src, 0>>, Prim(selectedNodes[i], 0) >> \in edges

-----------------------------------------------------------------------------
(* Ending a macro (src/dist/cracked.js:349-371)                              *)

MacroNames == {"M", "N"}

NextMacro ==
    \/ CreateLeaf("osc", "createOscillator", NoSettings)
    \/ \E name \in MacroNames : Begin(name, NoSettings)
    \/ \E name \in MacroNames \cup {"nope"} : End(name)
    \/ FindNoArgs

SpecMacro == Init /\ [][NextMacro]_vars

\* the macro on top of the recording stack, 0 when nothing records
TopMacro == IF Len(currentMacro) = 0 THEN 0 ELSE currentMacro[Len(currentMacro)]

\* C11: end(name) pops the recording stack exactly when the stack is not empty
\* and the type of the macro on top equals name; any other end leaves the
\* stack as it is; and every node created while a macro is on top of the
\* stack is owned by that macro.
EndPopsOnlyMatchingTop ==
    [][/\ last'.op = "end" =>
            IF TopMacro # 0 /\ nodeStore[TopMacro].type = last'.arg
            THEN currentMacro' = SubSeq(currentMacro, 1, Len(currentMacro) - 1)
            ELSE currentMacro' = currentMacro
       /\ Len(nodeStore') = Len(nodeStore) + 1 =>
            nodeStore'[Len(nodeStore')].macroContainerUUID = TopMacro
      ]_vars

\* end("M") was issued while N, begun inside M, was on top: both still record
MismatchedEndKeptStack ==
    /\ Len(currentMacro) = 2
    /\ nodeStore[currentMacro[1]].type = "M"
    /\ nodeStore[currentMacro[2]].type = "N"
    /\ last.op = "end"
    /\ last.arg = "M"

-----------------------------------------------------------------------------
(* Unbinding step listeners (src/src/sequence.js:200-230)                    *)

MaxBindings == 3    \* listeners bound at once when listeners are unbound

NextBind ==
    \/ CreateLeaf("osc", "createOscillator", Settings("", "bar", ""))
    \/ \E selector \in {"osc", ".bar"} : Find(selector)
    \/ FindNoArgs
    \/ \E fn \in {1} : Len(loopListeners) < MaxBindings /\ pushListener(fn, << >>)
    \/ \E eventType \in {"step", "stop"} : unbind(eventType)

SpecBind == Init /\ [][NextBind]_vars

\* the positions of the bindings recorded under another selector than text
KeptBindings(text) ==
    {i \in 1..Len(loopListeners) : loopListeners[i].selector # text}

-----------------------------------------------------------------------------
(* Filtering the selection (src/src/sequence.js:470-488) and class lists in  *)
(* the registry (src/dist/cracked.js:1698-1715)                              *)

NextFilter ==
    \/ \E id \in {"", "x"}, class \in {"", "bar", "bar,baz"} :
          CreateLeaf("osc", "createOscillator", Settings(id, class, ""))
    \/ CreateBuffer(Settings("", "bar", ""), 0)
    \/ \E selector \in {"osc,buffer", ".bar", ".baz", "buffer,#x"} : Find(selector)
    \/ \E str \in {"osc", "buffer", ".bar", ".baz", "#x", "nope"} : Filter(str)

SpecFilter == Init /\ [][NextFilter]_vars

\* the class tokens of a node
ClassTokens(n) == IF n.class = "" THEN {} ELSE Elements(Split(n.class, ","))

\* node n matches the clause by type, by class or by id
MatchesClause(n, clause) ==
    \/ getSelectorType(clause) = "type" /\ n.type = clause
    \/ getSelectorType(clause) = "class" /\ SubSeq(clause, 2, Len(clause)) \in ClassTokens(n)
    \/ getSelectorType(clause) = "id" /\ n.id # "" /\ n.id = SubSeq(clause, 2, Len(clause))

\* C13: filter(clause) returns exactly the ids of the current selection, in
\* selection order, whose node matches the clause by type, by class or by id,
\* and changes neither the selection, nor the selector text, nor the
\* previous-node reference.
FilterReturnsMatchingSelection ==
    [][last'.op = "filter" =>
        /\ last'.result = SelectSeq(selectedNodes,
                                    LAMBDA u : MatchesClause(nodeStore[u], last'.arg))
        /\ UNCHANGED <<selectedNodes, currentSelector, previousNode>>
      ]_vars

\* C16: a node registered with a comma-separated class list is indexed once
\* under each of its class tokens: the lookup of "." followed by the token
\* returns the node.
ClassTokensIndexed ==
    \A u \in 1..Len(nodeStore) :
        \A token \in ClassTokens(nodeStore[u]) :
            /\ ("." \o token) \in DOMAIN nodeLookup
            /\ Cardinality({i \in 1..Len(nodeLookup["." \o token]) :
                               nodeLookup["." \o token][i] = u}) = 1
            /\ InArr(getNodesWithSelector(nodeLookup, "." \o token), u)

-----------------------------------------------------------------------------
(* Connections that resolve to a missing endpoint                            *)
(* (src/dist/cracked.js:242-253, 1260-1272, 1404-1413)                       *)

\* the endpoints a connection from wrapper a to wrapper b resolves to, before
\* the step
EndpointsOf(a, b) == getNodesToConnect(nodeStore, nodeStore[a], nodeStore[b])

\* a missing endpoint: no target primitive or control parameter, or a source
\* handle that cannot connect
MissingEndpoint(nodes) == nodes.to.k = "none" \/ nodes.from.k # "prim"

\* both endpoints are there and the host can connect them
SoundEndpoints(nodes) == nodes.from.k = "prim" /\ nodes.to.k \in {"prim", "param"}

\* the targets of the connect just issued (the source itself is skipped)
ConnectTargets == {selectedNodes'[i] : i \in 1..Len(selectedNodes')} \ {last'.src}

\* C14: in connect(selector) with several matched targets, of which some
\* resolve to a missing endpoint, no exception is raised and every other
\* matched target is connected.
ConnectSurvivesMissingEndpoints ==
    [][(/\ last'.op = "connect"
        /\ last'.src # 0
        /\ Cardinality(ConnectTargets) >= 2
        /\ \A b \in ConnectTargets :
              MissingEndpoint(EndpointsOf(last'.src, b))
                 \/ SoundEndpoints(EndpointsOf(last'.src, b))
        /\ \E b \in ConnectTargets : MissingEndpoint(EndpointsOf(last'.src, b)))
       =>
       /\ ~last'.threw
       /\ \A b \in ConnectTargets :
             SoundEndpoints(EndpointsOf(last'.src, b)) =>
                << <<EndpointsOf(last'.src, b).from.u, EndpointsOf(last'.src, b).from.g>>,
                   EndpointsOf(last'.src, b).to >> \in edges'
      ]_vars

-----------------------------------------------------------------------------
(* A host failure while a new node is chained (src/dist/cracked.js:1013-1028) *)

NextChain ==
    \/ CreateLeaf("osc", "createOscillator", NoSettings)
    \/ CreateLeafHostFails("osc", "createOscillator", NoSettings)
    \/ Begin("M", NoSettings)
    \/ End("M")
    \/ \E selector \in {"osc", "M", "*"} : Find(selector)
    \/ FindNoArgs

SpecChain == Init /\ [][NextChain]_vars

\* the nodes the creation just issued chains the new node from
ChainSources ==
    IF Len(selectedNodes) # 0 THEN {selectedNodes[i] : i \in 1..Len(selectedNodes)}
    ELSE {previousNode} \ {0}

\* the creation just issued calls the native connect for one of its sources
NativeConnectAttempted ==
    \E a \in ChainSources :
        Connectable(getNodesToConnect(nodeStore', nodeStore'[a], nodeStore'[last'.node]))

\* C15: when the native connect made to chain a newly created node from a
\* selected or the previous node fails, the node-creating operation ends with
\* that error raised to its caller.
ChainingFailurePropagates ==
    [][(last'.op = "create" /\ last'.hostFails /\ NativeConnectAttempted) => last'.threw]_vars

\* a creation chaining from a selection of two failed in the host and raised
NativeFailureRaisedFromCreate ==
    /\ last.op = "create"
    /\ last.hostFails
    /\ last.case = "selection"
    /\ last.threw
    /\ Len(selectedNodes) = 2
    /\ \A i \in 1..Len(selectedNodes) : ~isMacro(nodeStore[selectedNodes[i]])
    /\ edges = {}

-----------------------------------------------------------------------------
(* Removing the selected nodes (src/dist/cracked.js:1722-1746)               *)

NextRemove ==
    \/ \E id \in {"", "x"} : CreateLeaf("osc", "createOscillator", Settings(id, "", ""))
    \/ Begin("M", NoSettings)
    \/ End("M")
    \/ \E selector \in {"osc", "#x", "M", "M osc", "*", "osc,#x", "nope"} : Find(selector)
    \/ Remove

SpecRemove == Init /\ [][NextRemove]_vars

\* the clauses of the current selector that have an index entry
RemovedClauses ==
    {c \in Elements(Split(currentSelector, ",")) : c \in DOMAIN nodeLookup}

\* key has clause as a prefix
StartsWith(key, clause) ==
    Len(key) >= Len(clause) /\ SubSeq(key, 1, Len(clause)) = clause

\* the index entries whose key starts with a removed clause
PrefixedEntries ==
    {key \in DOMAIN nodeLookup : \E c \in RemovedClauses : StartsWith(key, c)}

\* the ids held by those entries
PrefixedIds == UNION {Elements(nodeLookup[key]) : key \in PrefixedEntries}

\* C17: remove() deletes, for each clause of the current selector that has an
\* index entry, that entry and every entry whose key has the clause as a
\* prefix; every other entry keeps its id list, except the wildcard entry,
\* which loses exactly the ids held by the deleted entries.
RemoveDeletesPrefixedEntriesOnly ==
    [][last'.op = "remove" =>
        /\ DOMAIN nodeLookup' = DOMAIN nodeLookup \ PrefixedEntries
        /\ \A key \in DOMAIN nodeLookup' :
              nodeLookup'[key] =
                 IF key = "*"
                 THEN SelectSeq(nodeLookup[key], LAMBDA u : u \notin PrefixedIds)
                 ELSE nodeLookup[key]
      ]_vars

\* C18: after remove(), every node the removed selector matched is gone: its
\* id resolves to no node and no index entry holds it.
RemovedNodesAreGone ==
    [][last'.op = "remove" =>
        \A u \in Elements(getNodesWithSelector(nodeLookup, currentSelector)) :
            /\ getNodeWithUUID(nodeStore', u) = 0
            /\ \A key \in DOMAIN nodeLookup' : ~InArr(nodeLookup'[key], u)
      ]_vars

-----------------------------------------------------------------------------
(* A stopped loop (src/src/sequence.js:96-120, 152-159)                      *)

NextStopped ==
    \/ startLoop
    \/ stopLoop
    \/ resetLoop
    \/ configureLoop(2, 200, 1, TRUE, <<"a", "b">>)
    \/ bind(1, <<"a", "b">>)
    \/ Tick
    \/ \E d \in {3, 4} : Advance(d)

SpecStopped == Init /\ [][NextStopped]_vars

\* C19: after loop("stop") or loop("reset") the loop is not running and the
\* target time is 0; and while the loop is not running no tick fires a step
\* or calls a callback, whichever timer delivers it.
StoppedLoopFiresNothing ==
    [][/\ last'.op \in {"stop", "reset"} =>
            ~isLoopRunning' /\ loopTimeToNextStep' = 0
       /\ (~isLoopRunning /\ last'.op = "tick") =>
            /\ ~last'.fired
            /\ stepsFired' = stepsFired
            /\ calls' = << >>
            /\ loopIndex' = loopIndex
            /\ loopListeners' = loopListeners
            /\ loopTimeToNextStep' = 0
      ]_vars

\* a timer armed before loop("reset") has ticked after it, with a global
\* callback and a listener set again, and the step count stayed
TickAfterResetFiredNothing ==
    /\ last.op = "tick"
    /\ ~isLoopRunning
    /\ DOMAIN timers # {}
    /\ loopCB # 0
    /\ Len(loopListeners) > 0
    /\ stepsFired > 0
    /\ calls = << >>

\* C20: loop("reset"), in any state, sets the step count to 16 and the
\* interval to 100, removes the global callback, empties the global data array
\* and the listener set, puts the global step index back to its initial value
\* -1, and sets running to false and the target time to 0.
ResetRestoresDefaults ==
    [][last'.op = "reset" =>
        /\ loopStepSize' = 16
        /\ loopInterval' = 100
        /\ loopCB' = 0
        /\ loopData' = << >>
        /\ loopListeners' = << >>
        /\ loopIndex' = -1
        /\ ~isLoopRunning'
        /\ loopTimeToNextStep' = 0
      ]_vars

\* loop("reset") was issued on a loop that had been started and had fired
\* steps, while its timer is still armed
ResetAfterStepsFired ==
    /\ last.op = "reset"
    /\ stepsFired > 1
    /\ DOMAIN timers # {}
    /\ loopStepSize = 16
    /\ loopListeners = << >>

-----------------------------------------------------------------------------
(* The step indices (src/src/sequence.js:129-146, 165-190, 200-213)          *)

MaxStarts == 2          \* timers armed by loop("start") in SpecStep
MaxStepListeners == 2   \* listeners bound at once in SpecStep

\* SpecStep: a loop that is configured, started, reset and started again while
\* its timers tick at any host time
NextStep ==
    \/ timerSeq < MaxStarts /\ startLoopBody
    \/ resetLoop
    \/ \E stepCount \in {0, 1, 2}, data \in DataArrays :
          configureLoop(stepCount, 0, 1, data # << >>, data)
    \/ configureTempo(100)
    \/ \E data \in {<<"a", "b">>, <<"a", "b", "c">>} :
          Len(loopListeners) < MaxStepListeners /\ pushListener(1, data)
    \/ Tick
    \/ \E d \in {3, 4} : Advance(d)

SpecStep == Init /\ [][NextStep]_vars

\* C21: with a global step count N configured, a fired step moves the global
\* index to index+1 if index < N-1 and to 0 otherwise, the new index is within
\* 0..N-1, the global callback (when set) is the first call of the step and
\* receives the new index, the global data element at it or null, and the
\* whole global data array; the index changes in no other way than by a fired
\* step or a reset, a reset puts it to -1 and the step fired from -1 has
\* index 0.
GlobalIndexAdvancesCircularly ==
    [][/\ (last'.op = "tick" /\ last'.fired /\ loopStepSize # 0) =>
            /\ loopIndex' = IF loopIndex < loopStepSize - 1 THEN loopIndex + 1 ELSE 0
            /\ loopIndex' \in 0..(loopStepSize - 1)
            /\ loopIndex = -1 => loopIndex' = 0
            /\ loopCB # 0 =>
                 /\ calls' # << >>
                 /\ calls'[1].who = 0
                 /\ calls'[1].index = loopIndex'
                 /\ calls'[1].datum = IF loopIndex' < Len(loopData)
                                      THEN loopData[loopIndex' + 1] ELSE "null"
                 /\ calls'[1].data = loopData
       /\ last'.op = "reset" => loopIndex' = -1
       /\ loopIndex' # loopIndex =>
             \/ last'.op = "reset"
             \/ last'.op = "tick" /\ last'.fired /\ loopStepSize # 0
      ]_vars

\* a step fired when the index it found was beyond the configured step count
\* (after a reconfiguration to a smaller count), and the callback got index 0
StepAfterSmallerCount ==
    /\ last.op = "tick"
    /\ last.fired
    /\ loopStepSize # 0
    /\ last.was > loopStepSize - 1
    /\ loopIndex = 0
    /\ calls # << >>
    /\ calls[1].who = 0
    /\ calls[1].index = 0

\* the call a fired step made to listener i
ListenerCall(stepCalls, i) ==
    stepCalls[CHOOSE c \in 1..Len(stepCalls) : stepCalls[c].who = i]

\* C22: in tempo-only mode (no global step count) the index passed to the
\* callback of a listener bound with a non-empty data array is within
\* 0..length-1 and comes with the listener's data element at that index; the
\* listener's own index advances by one modulo its own data length per fired
\* step, whatever the other listeners and the global index do.
ListenerIndexWithinOwnData ==
    [][(last'.op = "tick" /\ last'.fired /\ loopStepSize = 0) =>
         /\ loopIndex' = loopIndex
         /\ Len(loopListeners') = Len(loopListeners)
         /\ \A i \in 1..Len(loopListeners) :
               loopListeners[i].data # << >> =>
                  /\ loopListeners'[i].loopIndex =
                        (loopListeners[i].loopIndex + 1) % Len(loopListeners[i].data)
                  /\ ListenerCall(calls', i).index \in 0..(Len(loopListeners[i].data) - 1)
                  /\ ListenerCall(calls', i).datum =
                        loopListeners[i].data[ListenerCall(calls', i).index + 1]
      ]_vars

-----------------------------------------------------------------------------
(* exec (src/src/sequence.js:413-419)                                        *)

\* cracked[method].apply(cracked, args), for the methods osc, connect and
\* start; arg is the selector given to connect
applyMethod(G, method, arg) ==
    CASE method = "osc"     -> createNode(G, "osc", "createOscillator", Settings("", "", ""))
      [] method = "connect" -> connect(G, arg)
      [] method = "start"   -> start(G)

\* exec without the final _selectedNodes = save
execKeepsMethodSelection(G, method, arg, nodes) ==
    applyMethod([G EXCEPT !.sel = nodes], method, arg)

\* the statement after the method call, which an exception skips
restoreSelection(G, save) == IF G.threw THEN G ELSE [G EXCEPT !.sel = save]

\* cracked.exec(method, args, nodes)
exec(G, method, arg, nodes) ==
    restoreSelection(applyMethod([G EXCEPT !.sel = nodes], method, arg), G.sel)

\* the node arrays given to exec: arrays of ids of stored nodes
NodeLists ==
    {<< >>} \cup {<<u>> : u \in 1..Len(nodeStore)}
            \cup {pair \in (1..Len(nodeStore)) \X (1..Len(nodeStore)) : pair[1] < pair[2]}

\* cracked.exec(method, [arg], nodes)
Exec(method, arg, nodes) ==
    /\ method = "osc" => Len(nodeStore) < MaxNodes
    /\ method = "connect" => \A u \in 1..Len(nodeStore) : Len(nodeStore[u].nextNode) < MaxNext
    /\ Does(exec(Graph, method, arg, nodes),
            [NoLast EXCEPT !.op = "exec", !.arg = method, !.result = nodes,
                           !.node = IF method = "osc" THEN Len(nodeStore) + 1 ELSE 0])
    /\ calls' = << >>
    /\ LoopUnchanged

\* SpecExec: oscillators are created, selected, connected and started,
\* directly and through exec
NextExec ==
    \/ CreateLeaf("osc", "createOscillator", Settings("", "", ""))
    \/ Find("osc")
    \/ FindNoArgs
    \/ \E method \in {"osc", "start"}, nodes \in NodeLists : Exec(method, "", nodes)
    \/ \E nodes \in NodeLists : Exec("connect", "osc", nodes)

SpecExec == Init /\ [][NextExec]_vars

\* C23: when the method run by exec returns normally, the selection after
\* exec is exactly the selection that was live before the call, also when
\* the method created a node or ran find.
ExecRestoresSelection ==
    [][(last'.op = "exec" /\ ~last'.threw) => selectedNodes' = selectedNodes]_vars

\* exec ran a creating method on a node list other than the live selection:
\* the new node was chained from the list and the live selection stayed
ExecCreatedFromGivenNodes ==
    /\ last.op = "exec"
    /\ last.arg = "osc"
    /\ ~last.threw
    /\ selectedNodes # << >>
    /\ last.result # << >>
    /\ last.result # selectedNodes
    /\ previousNode = last.node
    /\ \E e \in edges : e[1][1] = last.result[1] /\ e[2].u = last.node

-----------------------------------------------------------------------------
(* Closed macros (src/dist/cracked.js:349-371, 391-396)                      *)

\* C24: after end(name) has closed a macro, the member sequence of that
\* compound node is non-empty, whatever was done between its begin and its
\* end.
ClosedMacroHasMembers ==
    [][(last'.op = "end" /\ last'.case = "popped") =>
          nodeStore'[last'.node].members # << >>]_vars

-----------------------------------------------------------------------------
(* Edges after a reset (src/dist/cracked.js:1260-1272, 1353-1380, 1416-1426) *)

\* node u was reset by the step: its primitive was replaced by a fresh one
WasReset(u) == nodeStore'[u].gen = nodeStore[u].gen + 1

\* C25: after a one-shot node is reset, its fresh primitive has a native edge
\* to every endpoint the old primitive was connected to and a native edge
\* from every source that was connected into the old primitive (endpoints and
\* sources whose primitive is still the current one of its node), including
\* the edges made through an enclosing compound node.
ResetRestoresEveryEdge ==
    [][(last'.op = "stop" /\ ~last'.threw) =>
        \A u \in 1..Len(nodeStore) : WasReset(u) =>
            \A e \in edges :
               /\ (/\ e[1] = <<u, nodeStore[u].gen>>
                   /\ nodeStore'[e[2].u].gen = e[2].g)
                     => << <<u, nodeStore'[u].gen>>, e[2] >> \in edges'
               /\ (/\ e[2].u = u
                   /\ e[2].g = nodeStore[u].gen
                   /\ nodeStore'[e[1][1]].gen = e[1][2])
                     => << e[1], [e[2] EXCEPT !.g = nodeStore'[u].gen] >> \in edges'
      ]_vars

-----------------------------------------------------------------------------
(* Member handles after resets (src/dist/cracked.js:1113-1131, 1353-1399)    *)

\* C26: after any sequence of start and stop operations on leaf nodes and on
\* the compound nodes that contain them, every primitive handle in a compound
\* node's member sequence (the nested sequences are the member sequences of
\* the nested compound nodes) is the current primitive of the node with that
\* id.
MemberHandlesAreCurrent ==
    \A m \in 1..Len(nodeStore) :
        \A i \in 1..Len(nodeStore[m].members) :
            nodeStore[m].members[i].k = "prim" =>
                nodeStore[m].members[i].g = nodeStore[nodeStore[m].members[i].u].gen

-----------------------------------------------------------------------------
(* Native starts (src/dist/cracked.js:867-894, 1093-1131)                    *)

\* C27: no primitive receives a native start call twice: whatever starts and
\* stops were issued on a node or on a compound node containing it, start()
\* never reaches a primitive that was started before (the host answers such
\* a call with an InvalidStateError, which leaves start() as an exception).
NoPrimitiveStartedTwice ==
    [][last'.op = "start" => ~last'.threw]_vars

-----------------------------------------------------------------------------
(* Finding while a macro records (src/dist/cracked.js:118-147)               *)

MaxOwnerNodes == 4      \* nodes stored in SpecOwner

\* SpecOwner: macros of one type "M" are recorded one after another and
\* inside one another, oscillators are created in them and found
NextOwner ==
    \/ Len(nodeStore) < MaxOwnerNodes
          /\ Creates("osc", "createOscillator", Settings("", "", ""))
    \/ Len(nodeStore) < MaxOwnerNodes /\ Begins("M", Settings("", "", ""))
    \/ End("M")
    \/ \E selector \in {"osc", "M osc"} : Find(selector)
    \/ FindNoArgs

SpecOwner == Init /\ [][NextOwner]_vars

\* C28: after find(selector) issued while a macro is recording, every id in
\* the selection is owned by the currently recording macro, however many ids
\* of other macro instances the namespace-prefixed lookup returned.
FindInMacroSelectsOwnMembersOnly ==
    (last.op = "find" /\ last.case = "recording") =>
        \A i \in 1..Len(selectedNodes) :
            nodeStore[selectedNodes[i]].macroContainerUUID = getCurrentMacro(currentMacro)

-----------------------------------------------------------------------------
(* Links without a native connect (src/dist/cracked.js:242-253, 1404-1413)   *)

\* connect from node src performs no native connect for target t: t is src
\* itself or the endpoints of the pair are not connectable
NoNativeConnect(src, t) ==
    \/ t = src
    \/ ~Connectable(getNodesToConnect(nodeStore, nodeStore[src], nodeStore[t]))

\* C29: adjacency links change only when a native connect was performed: a
\* connect(selector) all of whose targets are the source node itself or have
\* endpoints that are not connectable leaves the next list and the previous
\* link of every node unchanged.
LinksChangeOnlyWithNativeConnect ==
    [][(/\ last'.op = "connect"
        /\ ~last'.threw
        /\ last'.src # 0
        /\ \A i \in 1..Len(selectedNodes') : NoNativeConnect(last'.src, selectedNodes'[i]))
         => \A u \in 1..Len(nodeStore) :
               /\ nodeStore'[u].nextNode = nodeStore[u].nextNode
               /\ nodeStore'[u].prevNode = nodeStore[u].prevNode
      ]_vars

-----------------------------------------------------------------------------
(* Ownership of recorded nodes (src/dist/cracked.js:391-396, 1676-1680)      *)

\* the handle a new node n puts into a member sequence: its primitive, or for
\* a compound node its own member sequence
NewHandle(n) == IF last'.op = "begin" THEN Arr(n) ELSE Prim(n, 0)

\* C30: a node created while the recording stack is non-empty gets the id of
\* the top-of-stack macro as its macro owner, and its handle is appended at
\* the end of the member sequence of that macro and of no other macro; a node
\* created with an empty stack has no owner and changes no member sequence.
CreatedNodeJoinsTopMacroOnly ==
    [][last'.op \in {"create", "begin"} =>
        /\ Len(nodeStore') = Len(nodeStore) + 1
        /\ last'.node = Len(nodeStore')
        /\ nodeStore'[last'.node].macroContainerUUID =
              (IF currentMacro # << >> THEN currentMacro[Len(currentMacro)] ELSE 0)
        /\ \A m \in 1..Len(nodeStore) :
              nodeStore'[m].members =
                 IF currentMacro # << >> /\ m = currentMacro[Len(currentMacro)]
                 THEN Append(nodeStore[m].members, NewHandle(last'.node))
                 ELSE nodeStore[m].members
      ]_vars

\* a leaf was created at nesting depth two: it is the member of its immediate
\* parent, and the outer macro holds only the inner macro's member sequence
LeafAtDepthTwoInParentOnly ==
    /\ last.op = "create"
    /\ Len(currentMacro) = 2
    /\ nodeStore[last.node].macroContainerUUID = currentMacro[2]
    /\ nodeStore[currentMacro[2]].macroContainerUUID = currentMacro[1]
    /\ nodeStore[currentMacro[2]].members = << Prim(last.node, 0) >>
    /\ nodeStore[currentMacro[1]].members = << Arr(currentMacro[2]) >>

-----------------------------------------------------------------------------
(* The namespace of a closed macro (src/dist/cracked.js:362-371, 426-436,    *)
(* 1208-1216)                                                                *)

\* the type names of the macros in stack, outermost first
TypeNames(stack) == [i \in 1..Len(stack) |-> nodeStore[stack[i]].type]

\* the namespace of every macro that is still recording is empty, and a step
\* changes the namespace of no node but the macro it pops
NamespaceSetOnlyByPop ==
    /\ \A i \in 1..Len(currentMacro) : nodeStore[currentMacro[i]].macroNameSpace = ""
    /\ \A u \in 1..Len(nodeStore) :
          (~(last'.op = "end" /\ last'.case = "popped" /\ last'.node = u))
             => nodeStore'[u].macroNameSpace = nodeStore[u].macroNameSpace

\* C31: when end(name) pops macro X, the namespace of X is set to the
\* space-joined type names of the macros that are open at that moment, X
\* itself included as the last name, outermost first, followed by one space;
\* before that pop the namespace of X is empty, and after it the namespace of
\* X never changes.
PopFixesNamespaceWithOwnType ==
    [][/\ NamespaceSetOnlyByPop
       /\ (last'.op = "end" /\ last'.case = "popped") =>
             nodeStore'[last'.node].macroNameSpace
                = Join(TypeNames(currentMacro), " ") \o " "
      ]_vars

\* C31 as stated: the namespace of the popped macro is the space-joined type
\* names of its still-open ancestors only.
PopFixesNamespaceOfAncestors ==
    [][/\ NamespaceSetOnlyByPop
       /\ (last'.op = "end" /\ last'.case = "popped") =>
             nodeStore'[last'.node].macroNameSpace
                = Join(TypeNames(currentMacro'), " ")
      ]_vars

\* N, begun inside M, has been closed while M still records
NestedMacroClosedInsideOpenOne ==
    /\ last.op = "end"
    /\ last.case = "popped"
    /\ Len(currentMacro) = 1
    /\ nodeStore[currentMacro[1]].type = "M"
    /\ nodeStore[last.node].type = "N"
    /\ nodeStore[last.node].macroContainerUUID = currentMacro[1]
    /\ nodeStore[last.node].macroNameSpace = "M N "
    /\ nodeStore[currentMacro[1]].macroNameSpace = ""

-----------------------------------------------------------------------------
(* Resolved endpoints (src/dist/cracked.js:1455-1467)                        *)

\* C32: connection resolves a leaf to its single primitive handle, a compound
\* node with members to the last handle of its member sequence on the from
\* side and to the first on the to side, and the resolved endpoint is a
\* single primitive handle, also when that member is a nested macro.
ResolvesToSinglePrimitive ==
    \A u \in 1..Len(nodeStore) :
        IF ~isMacro(nodeStore[u])
        THEN \A side \in {"from", "to"} :
                getNodeToConnect(nodeStore[u], side) = Prim(u, nodeStore[u].gen)
        ELSE nodeStore[u].members # << >> =>
                /\ getNodeToConnect(nodeStore[u], "from")
                      = nodeStore[u].members[Len(nodeStore[u].members)]
                /\ getNodeToConnect(nodeStore[u], "to") = nodeStore[u].members[1]
                /\ \A side \in {"from", "to"} :
                      getNodeToConnect(nodeStore[u], side).k = "prim"

-----------------------------------------------------------------------------
(* Index entries and the node store (src/dist/cracked.js:1676-1746)          *)

\* C33: in every reachable state every id held by an index entry, the
\* wildcard entry included, is the id of a node present in the node store.
LookupIdsAreStored ==
    \A key \in DOMAIN nodeLookup :
        \A i \in 1..Len(nodeLookup[key]) :
            getNodeWithUUID(nodeStore, nodeLookup[key][i]) # 0

\* remove() has deleted the entry "osc" and returned, and the entry "#x" still
\* holds the id of an oscillator
RemoveLeftIdUnderOtherKey ==
    /\ last.op = "remove"
    /\ ~last.threw
    /\ "osc" \notin DOMAIN nodeLookup
    /\ "#x" \in DOMAIN nodeLookup
    /\ \E i \in 1..Len(nodeLookup["#x"]) :
          /\ nodeStore[nodeLookup["#x"][i]].type = "osc"
          /\ nodeStore[nodeLookup["#x"][i]].macroContainerUUID = 0

-----------------------------------------------------------------------------
(* The selection around a step (src/src/sequence.js:174-190, 200-213)        *)

\* SpecSwap: oscillators are created and selected, listeners whose callbacks
\* find or create are bound to the selection, and the loop steps
NextSwap ==
    \/ CreateLeaf("osc", "createOscillator", Settings("", "", ""))
    \/ Find("osc")
    \/ \E fn \in {2, 3} :
          Len(loopListeners) < MaxStepListeners /\ pushListener(fn, << >>)
    \/ startLoop
    \/ /\ Len(nodeStore)
             + Cardinality({i \in 1..Len(loopListeners) : loopListeners[i].callback = 3})
               <= MaxNodes
       /\ Tick
    \/ Advance(4)

SpecSwap == Init /\ [][NextSwap]_vars

\* C34: when a fired step has completed, the live selection is the list it
\* was before the step, whatever the listener callbacks did to it; each
\* listener's callback runs with the selection recorded when the listener
\* was bound, and no step alters the selection recorded for a listener.
StepRestoresSelection ==
    [][/\ (last'.op = "tick" /\ last'.fired) =>
             /\ selectedNodes' = selectedNodes
             /\ \A i \in 1..Len(loopListeners) :
                   ListenerCall(calls', i).selection = loopListeners[i].selection
       /\ last'.op = "bind" =>
             loopListeners'[Len(loopListeners')].selection = selectedNodes
       /\ \A i \in 1..Len(loopListeners) :
             /\ i <= Len(loopListeners')
             /\ loopListeners'[i].selection = loopListeners[i].selection
      ]_vars

\* a step has fired in which a listener bound to another selection than the
\* live one created a node, and the live selection is still there
StepCreatedFromSnapshot ==
    /\ last.op = "tick"
    /\ last.fired
    /\ selectedNodes # << >>
    /\ previousNode # 0
    /\ \E i \in 1..Len(loopListeners) :
          /\ loopListeners[i].callback = 3
          /\ loopListeners[i].selection # selectedNodes
          /\ loopListeners[i].selection # << >>
          /\ nodeStore[previousNode].prevNode = Last(loopListeners[i].selection)


\* C35: a modulator node without a macro owner (a macro that declares the
\* parameter it modulates) connected to a leaf that has no macro owner either
\* and exposes the control parameter gets its native edge to that control
\* parameter of the target, and none to the target's primitive: the two are not
\* treated as siblings
OwnerlessModulatorRoutesToParameter ==
    [][~last'.threw =>
        \A pair \in ConnectedPairs :
            LET A == nodeStore'[pair[1]]
                B == nodeStore'[pair[2]]
                from == getNodeToConnect(A, "from")
                name == ControlParameter(B, A.modulates)
            IN  (/\ A.modulates # ""
                 /\ A.macroContainerUUID = 0
                 /\ B.macroContainerUUID = 0
                 /\ ~isMacro(B)
                 /\ from.k = "prim"
                 /\ name \in AudioParams(B.method)) =>
                    /\ << <<from.u, from.g>>, Param(B.uuid, B.gen, name) >> \in edges'
                    /\ << <<from.u, from.g>>, Prim(B.uuid, B.gen) >> \notin edges' \ edges
      ]_vars

\* C36: when a global step count is configured, every listener callback a fired
\* step invokes receives the current global step index, a value in
\* 0..count-1, and the element of the listener's own data array at that index,
\* or null when the array has no such element
ListenerGetsGlobalIndex ==
    [][(last'.op = "tick" /\ last'.fired /\ loopStepSize > 0) =>
         \A i \in 1..Len(loopListeners) :
            /\ ListenerCall(calls', i).index = loopIndex'
            /\ ListenerCall(calls', i).index \in 0..(loopStepSize - 1)
            /\ ListenerCall(calls', i).datum = DataAt(loopListeners[i].data, loopIndex')
      ]_vars

\* C37: loop("start") while the sequencer is stopped sets the target time to the
\* host's now plus the interval and the running flag to true; loop("start")
\* while it is running changes nothing: the target time, the global index, the
\* listeners with their indices, the armed timers and the timer id are as before
StartWhileRunningChangesNothing ==
    [][last'.op = "start" =>
         IF ~isLoopRunning
         THEN /\ loopTimeToNextStep' = currentTime + IntervalTime(loopInterval)
              /\ isLoopRunning'
         ELSE /\ UNCHANGED <<loopTimeToNextStep, loopIndex, loopListeners, timers,
                             loopID, isLoopRunning>>
              /\ UNCHANGED <<loopStepSize, loopInterval, loopCB, loopData, ignoreGrid>>
      ]_vars

\* a start was issued while the loop was running, after a step had fired for a
\* bound listener and moved the target time on
StartedAgainAfterStep ==
    /\ last.op = "start"
    /\ isLoopRunning
    /\ stepsFired > 0
    /\ Len(loopListeners) > 0
    /\ loopTimeToNextStep # currentTime + IntervalTime(loopInterval)

\* C38: after any sequence of loop("start"), loop("stop") and loop("reset") at
\* most one recurring timer is armed, and none while the running flag is false;
\* in particular a reset issued while running leaves no timer armed
NoTimerWhileStopped ==
    /\ Cardinality(DOMAIN timers) <= 1
    /\ ~isLoopRunning => DOMAIN timers = {}

-----------------------------------------------------------------------------
(* A loop that falls behind its target time (src/src/sequence.js:83-159)     *)

\* SpecLate: a loop started, stopped, reset and started again, its interval
\* reconfigured while it runs, under a host whose ticks arrive at any time
NextLate ==
    \/ timerSeq < MaxStarts /\ startLoopBody
    \/ stopLoop
    \/ resetLoop
    \/ \E interval \in {0, 200} : configureLoop(2, interval, 1, FALSE, << >>)
    \/ configureTempo(100)
    \/ Tick
    \/ \E d \in {3, 4} : Advance(d)

SpecLate == Init /\ [][NextLate]_vars

\* the loop is running and host time has reached the target time
Late == isLoopRunning /\ currentTime >= loopTimeToNextStep

\* C39: while the loop is running the target time changes only when a step
\* fires, and the loop leaves the running state only by stop or reset; so once
\* host time has reached the target of a running loop, every tick fires no step
\* and the loop stays behind its target for as long as it runs: until it is
\* stopped (the running flag cleared) and started again
LateLoopFiresNoStep ==
    [][/\ (isLoopRunning /\ isLoopRunning' /\ loopTimeToNextStep' # loopTimeToNextStep) =>
              (last'.op = "tick" /\ last'.fired)
       /\ (isLoopRunning /\ ~isLoopRunning') => last'.op \in {"stop", "reset"}
       /\ Late => /\ ~(last'.op = "tick" /\ last'.fired)
                  /\ stepsFired' <= stepsFired
                  /\ Late' \/ ~isLoopRunning'
      ]_vars

\* a loop that had fired steps and then had its interval shortened was found
\* behind its target by a tick, which fired nothing
LateTickFiredNothing ==
    /\ last.op = "tick"
    /\ ~last.fired
    /\ Late
    /\ stepsFired > 0
    /\ loopInterval = 100
    /\ loopStepSize = 0

\* C40: when the creation of a node aborts because the native connect of the
\* chaining step fails, the node store (with the member sequences of the open
\* macros), the lookup index, the selection and the previous-node reference are
\* as they were before the call: the aborted node is not registered
AbortedCreationLeavesNoNode ==
    [][(last'.op = "create" /\ last'.hostFails /\ last'.threw) =>
          UNCHANGED <<nodeStore, nodeLookup, selectedNodes, previousNode>>
      ]_vars

=============================================================================
